---------------------------- MODULE Spec2Model ----------------------------
(***************************************************************************)
(* Model of the query-safety core of pro-data-analysis:                    *)
(*   scripts/db_connector.py   is_select_only, safe_execute,               *)
(*                             _wrap_with_limit                            *)
(*   scripts/run_query_safe.py run_query, _count_query, _wrap_with_limit   *)
(*   scripts/explain_query.py  explain_query, the four _*_explain and     *)
(*                             their plan analyzers                        *)
(*   scripts/find_relationships.py  find_relationships, find_join_between *)
(*                             over a system catalog                       *)
(*                                                                         *)
(* A text is a sequence of one-character strings, so that the regular      *)
(* expressions, str.strip, str.split and the f-strings of the source act   *)
(* on characters as they do in Python.                                     *)
(***************************************************************************)
EXTENDS Integers, Sequences, FiniteSets, TLC

VARIABLES
    pc,               \* "start" before the call, "done" after it returned or raised
    op,               \* the function that is called
    sql,              \* the sql argument (a text)
    db_type,          \* the dialect tag (get_db_type / the db_type argument)
    row_limit,        \* the row_limit / limit argument
    timeout_seconds,  \* the timeout_seconds argument
    count_only,       \* the count_only argument
    schema,           \* the schema argument (a text)
    table_list,       \* the table_name argument (a list of one) or the tables argument
    catalog,          \* the system catalog of the database the alias points to
    total,            \* rows the engine holds for the statement as given (-1: not asked)
    cursor_log,       \* the statements passed to cursor.execute, in order
    fetched,          \* what cursor.fetchall / fetchone returned
    fetched_json,     \* what fetchone returned for a JSON explain ("none": not asked)
    conn_opened,      \* connections opened by get_connection
    conn_closed,      \* conn.close() calls
    cursors,          \* conn.cursor() calls
    fault,            \* the driver call that raised last ("none" when none did)
    raised,           \* the driver calls that raised, in order
    result,           \* the value returned ("none" when nothing was returned)
    error             \* the exception raised ("none" when nothing was raised)

\* the arguments of the call
args == <<op, sql, db_type, row_limit, timeout_seconds, count_only, schema, table_list>>

\* the database side of the call
world ==
    <<catalog, total, cursor_log, fetched, fetched_json, conn_opened, conn_closed, cursors,
      fault, raised>>

vars == <<pc, args, world, result, error>>

\* nothing has touched the database
Untouched ==
    /\ total = -1
    /\ cursor_log = <<>>
    /\ fetched = <<>>
    /\ conn_opened = 0
    /\ conn_closed = 0
    /\ cursors = 0
    /\ fault = "none"
    /\ raised = <<>>
    /\ fetched_json = "none"

-----------------------------------------------------------------------------
(* Bounds of the model *)

\* longest classifier input, in atoms of ClassifyAtoms
MaxAtoms == 3
\* longest statement given to the rewriter alone, in atoms of RunAtoms
MaxWrapAtoms == 3
\* longest statement given to the entry points, in atoms of RunAtoms
MaxRunAtoms == 2
\* largest row cap passed (the smallest is -1)
MaxCap == 2
\* largest timeout passed, in seconds
MaxTimeout == 2
\* most rows the engine holds for a statement
MaxRows == 3
\* longest plan line given to an analyzer, in atoms of the dialect's plan atoms
MaxPlanAtoms == 3
\* most lines (of one atom each) and most rows of a plan given to an analyzer
MaxPlanLines == 3

-----------------------------------------------------------------------------
(* Characters and texts *)

LowerCase == <<"a", "b", "c", "d", "e", "f", "g", "h", "i", "j", "k", "l", "m",
               "n", "o", "p", "q", "r", "s", "t", "u", "v", "w", "x", "y", "z">>
UpperCase == <<"A", "B", "C", "D", "E", "F", "G", "H", "I", "J", "K", "L", "M",
               "N", "O", "P", "Q", "R", "S", "T", "U", "V", "W", "X", "Y", "Z">>
Digits == <<"0", "1", "2", "3", "4", "5", "6", "7", "8", "9">>

Range(f) == {f[i] : i \in DOMAIN f}

\* str.isspace of one character (the characters str.strip and str.split drop)
IsSpace(c) == c \in {" ", "\n", "\t", "\r"}

\* \w of the re module
IsWordChar(c) == c \in Range(LowerCase) \cup Range(UpperCase) \cup Range(Digits) \cup {"_"}

\* str.upper of one character
UpperChar(c) ==
    IF \E i \in DOMAIN LowerCase : LowerCase[i] = c
    THEN UpperCase[CHOOSE i \in DOMAIN LowerCase : LowerCase[i] = c]
    ELSE c

\* str.upper
upper(s) == [i \in DOMAIN s |-> UpperChar(s[i])]

\* str.lstrip()
RECURSIVE lstrip(_)
lstrip(s) == IF s # <<>> /\ IsSpace(Head(s)) THEN lstrip(Tail(s)) ELSE s

\* str.rstrip()
RECURSIVE rstrip(_)
rstrip(s) ==
    IF s # <<>> /\ IsSpace(s[Len(s)]) THEN rstrip(SubSeq(s, 1, Len(s) - 1)) ELSE s

\* str.strip()
strip(s) == rstrip(lstrip(s))

\* a strip of the last semicolon alone
rstrip_semicolon_Once(s) ==
    IF s # <<>> /\ s[Len(s)] = ";" THEN SubSeq(s, 1, Len(s) - 1) ELSE s

\* str.rstrip(";"): every trailing semicolon goes
RECURSIVE rstrip_semicolon(_)
rstrip_semicolon(s) ==
    IF s # <<>> /\ s[Len(s)] = ";"
    THEN rstrip_semicolon(SubSeq(s, 1, Len(s) - 1))
    ELSE s

\* the first element of str.split(), "" (the empty text) when there is none
RECURSIVE TakeWord(_)
TakeWord(s) ==
    IF s = <<>> \/ IsSpace(Head(s)) THEN <<>> ELSE <<Head(s)>> \o TakeWord(Tail(s))

split_first(s) == TakeWord(lstrip(s))

\* s[i..] starts with p
StartsWithAt(s, i, p) ==
    /\ i + Len(p) - 1 <= Len(s)
    /\ \A k \in 1..Len(p) : s[i + k - 1] = p[k]

\* re.sub(r'--[^\n]*', '', s): from position i on
RECURSIVE SubLineFrom(_, _)
SubLineFrom(s, i) ==
    IF i > Len(s) THEN <<>>
    ELSE IF StartsWithAt(s, i, <<"-", "-">>)
         THEN LET rest == {j \in (i + 2)..Len(s) : s[j] = "\n"}
              IN  IF rest = {} THEN <<>>
                  ELSE SubLineFrom(s, CHOOSE j \in rest : \A k \in rest : j <= k)
         ELSE <<s[i]>> \o SubLineFrom(s, i + 1)

strip_line_comments(s) == SubLineFrom(s, 1)

\* re.sub(r'/\*.*?\*/', '', s, flags=re.DOTALL): from position i on
RECURSIVE SubBlockFrom(_, _)
SubBlockFrom(s, i) ==
    IF i > Len(s) THEN <<>>
    ELSE LET ends == {j \in (i + 2)..Len(s) : StartsWithAt(s, j, <<"*", "/">>)}
         IN  IF StartsWithAt(s, i, <<"/", "*">>) /\ ends # {}
             THEN SubBlockFrom(s, (CHOOSE j \in ends : \A k \in ends : j <= k) + 2)
             ELSE <<s[i]>> \o SubBlockFrom(s, i + 1)

strip_block_comments(s) == SubBlockFrom(s, 1)

\* re.search(rf'\b{kw}\b', s) finds a match
word_search(kw, s) ==
    \E i \in 1..Len(s) :
        /\ StartsWithAt(s, i, kw)
        /\ (i = 1 \/ ~IsWordChar(s[i - 1]))
        /\ (i + Len(kw) > Len(s) \/ ~IsWordChar(s[i + Len(kw)]))

-----------------------------------------------------------------------------
(* Keywords *)

KW_SELECT == <<"S", "E", "L", "E", "C", "T">>
KW_WITH == <<"W", "I", "T", "H">>
KW_EXPLAIN == <<"E", "X", "P", "L", "A", "I", "N">>
KW_INSERT == <<"I", "N", "S", "E", "R", "T">>
KW_UPDATE == <<"U", "P", "D", "A", "T", "E">>
KW_DELETE == <<"D", "E", "L", "E", "T", "E">>
KW_DROP == <<"D", "R", "O", "P">>
KW_ALTER == <<"A", "L", "T", "E", "R">>
KW_CREATE == <<"C", "R", "E", "A", "T", "E">>
KW_TRUNCATE == <<"T", "R", "U", "N", "C", "A", "T", "E">>
KW_MERGE == <<"M", "E", "R", "G", "E">>
KW_GRANT == <<"G", "R", "A", "N", "T">>
KW_REVOKE == <<"R", "E", "V", "O", "K", "E">>
KW_EXEC == <<"E", "X", "E", "C">>
KW_EXECUTE == <<"E", "X", "E", "C", "U", "T", "E">>
KW_CALL == <<"C", "A", "L", "L">>
KW_BEGIN == <<"B", "E", "G", "I", "N">>
KW_DECLARE == <<"D", "E", "C", "L", "A", "R", "E">>

\* the tuple `blocked` of is_select_only
blocked == {KW_INSERT, KW_UPDATE, KW_DELETE, KW_DROP, KW_ALTER, KW_CREATE, KW_TRUNCATE, KW_MERGE, KW_GRANT,
            KW_REVOKE, KW_EXEC, KW_EXECUTE, KW_CALL, KW_BEGIN, KW_DECLARE}

\* the tuple of the final return of is_select_only
allowed_first == {KW_SELECT, KW_WITH, KW_EXPLAIN}

-----------------------------------------------------------------------------
(* db_connector.is_select_only *)

\* `cleaned`: comments stripped (line comments first), then strip().upper()
cleaned_of(s) == upper(strip(strip_block_comments(strip_line_comments(s))))

\* `first_word`
first_word_of(s) == split_first(cleaned_of(s))

is_select_only_NoKeywordScan(s) == first_word_of(s) \in allowed_first

is_select_only(s) ==
    IF first_word_of(s) \in blocked THEN FALSE
    ELSE IF \E kw \in blocked : word_search(kw, cleaned_of(s)) THEN FALSE
    ELSE first_word_of(s) \in allowed_first

-----------------------------------------------------------------------------
(* Numbers in f-strings *)

\* str(n) of a natural number
RECURSIVE StrNat(_)
StrNat(n) == IF n < 10 THEN <<Digits[n + 1]>> ELSE StrNat(n \div 10) \o <<Digits[(n % 10) + 1]>>

\* str(n) of an int, as an f-string renders {limit} and {timeout_seconds * 1000}
Str(n) == IF n < 0 THEN <<"-">> \o StrNat(-n) ELSE StrNat(n)

-----------------------------------------------------------------------------
(* The two copies of the rewriter *)

Dialects == {"oracle", "mysql", "postgresql", "sqlserver"}

\* the rewriter of run_query bounding at one row more than the cap
rqs_wrap_with_limit_OneMore(s, limit, dbt) ==
    LET sql_clean == rstrip_semicolon(rstrip(s))
    IN  IF dbt = "oracle"
        THEN <<"S", "E", "L", "E", "C", "T", " ", "*", " ", "F", "R", "O", "M", " ",
               "(">> \o sql_clean
             \o <<")", " ", "W", "H", "E", "R", "E", " ", "R", "O", "W", "N", "U", "M",
                  " ", "<", "=", " ">> \o Str(limit + 1)
        ELSE IF dbt \in {"mysql", "postgresql"}
        THEN <<"S", "E", "L", "E", "C", "T", " ", "*", " ", "F", "R", "O", "M", " ",
               "(">> \o sql_clean
             \o <<")", " ", "A", "S", " ", "_", "l", "i", "m", "i", "t", "e", "d", " ",
                  "L", "I", "M", "I", "T", " ">> \o Str(limit + 1)
        ELSE IF dbt = "sqlserver"
        THEN <<"S", "E", "L", "E", "C", "T", " ", "T", "O", "P", " ">> \o Str(limit + 1)
             \o <<" ", "*", " ", "F", "R", "O", "M", " ", "(">> \o sql_clean
             \o <<")", " ", "A", "S", " ", "_", "l", "i", "m", "i", "t", "e", "d">>
        ELSE sql_clean

\* run_query_safe._wrap_with_limit
rqs_wrap_with_limit(s, limit, dbt) ==
    LET sql_clean == rstrip_semicolon(rstrip(s))
    IN  IF dbt = "oracle"
        THEN <<"S", "E", "L", "E", "C", "T", " ", "*", " ", "F", "R", "O", "M", " ",
               "(">> \o sql_clean
             \o <<")", " ", "W", "H", "E", "R", "E", " ", "R", "O", "W", "N", "U", "M",
                  " ", "<", "=", " ">> \o Str(limit)
        ELSE IF dbt \in {"mysql", "postgresql"}
        THEN <<"S", "E", "L", "E", "C", "T", " ", "*", " ", "F", "R", "O", "M", " ",
               "(">> \o sql_clean
             \o <<")", " ", "A", "S", " ", "_", "l", "i", "m", "i", "t", "e", "d", " ",
                  "L", "I", "M", "I", "T", " ">> \o Str(limit)
        ELSE IF dbt = "sqlserver"
        THEN <<"S", "E", "L", "E", "C", "T", " ", "T", "O", "P", " ">> \o Str(limit)
             \o <<" ", "*", " ", "F", "R", "O", "M", " ", "(">> \o sql_clean
             \o <<")", " ", "A", "S", " ", "_", "l", "i", "m", "i", "t", "e", "d">>
        ELSE sql_clean

dbc_wrap_with_limit_LimitEverywhere(s, limit, dbt) ==
    LET sql_stripped == rstrip_semicolon(rstrip(s))
    IN  IF dbt \in Dialects
        THEN <<"S", "E", "L", "E", "C", "T", " ", "*", " ", "F", "R", "O", "M", " ",
               "(">> \o sql_stripped
             \o <<")", " ", "A", "S", " ", "_", "l", "i", "m", "i", "t", "e", "d", " ",
                  "L", "I", "M", "I", "T", " ">> \o Str(limit)
        ELSE sql_stripped

\* db_connector._wrap_with_limit
dbc_wrap_with_limit(s, limit, dbt) ==
    LET sql_stripped == rstrip_semicolon(rstrip(s))
    IN  IF dbt = "oracle"
        THEN <<"S", "E", "L", "E", "C", "T", " ", "*", " ", "F", "R", "O", "M", " ",
               "(">> \o sql_stripped
             \o <<")", " ", "W", "H", "E", "R", "E", " ", "R", "O", "W", "N", "U", "M",
                  " ", "<", "=", " ">> \o Str(limit)
        ELSE IF dbt = "mysql"
        THEN <<"S", "E", "L", "E", "C", "T", " ", "*", " ", "F", "R", "O", "M", " ",
               "(">> \o sql_stripped
             \o <<")", " ", "A", "S", " ", "_", "l", "i", "m", "i", "t", "e", "d", " ",
                  "L", "I", "M", "I", "T", " ">> \o Str(limit)
        ELSE IF dbt = "postgresql"
        THEN <<"S", "E", "L", "E", "C", "T", " ", "*", " ", "F", "R", "O", "M", " ",
               "(">> \o sql_stripped
             \o <<")", " ", "A", "S", " ", "_", "l", "i", "m", "i", "t", "e", "d", " ",
                  "L", "I", "M", "I", "T", " ">> \o Str(limit)
        ELSE IF dbt = "sqlserver"
        THEN <<"S", "E", "L", "E", "C", "T", " ", "T", "O", "P", " ">> \o Str(limit)
             \o <<" ", "*", " ", "F", "R", "O", "M", " ", "(">> \o sql_stripped
             \o <<")", " ", "A", "S", " ", "_", "l", "i", "m", "i", "t", "e", "d">>
        ELSE sql_stripped

-----------------------------------------------------------------------------
(* Inputs *)

\* the texts made of at most n atoms of the set `atoms`
RECURSIVE TextsOf(_, _)
TextsOf(atoms, n) ==
    IF n = 0 THEN {<<>>}
    ELSE LET shorter == TextsOf(atoms, n - 1)
         IN  shorter \cup {t \o a : t \in shorter, a \in atoms}

\* pieces the classifier inputs are made of: keywords in both letter cases, a word
\* character, white space, and the characters comments and calls are made of
ClassifyAtoms ==
    {KW_SELECT, <<"s", "e", "l", "e", "c", "t">>, KW_WITH,
     KW_DELETE, <<"d", "r", "o", "p">>,
     <<"1">>, <<" ">>, <<"\n">>, <<"-">>, <<"/">>, <<"*">>, <<"(">>, <<";">>}

\* every blocked keyword alone, after a SELECT, and inside a longer word; EXPLAIN
KeywordInputs ==
    blocked
    \cup {KW_SELECT \o <<" ">> \o kw : kw \in blocked}
    \cup {KW_SELECT \o <<" ">> \o kw \o <<"_", "D">> : kw \in blocked}
    \cup {KW_EXPLAIN, KW_EXPLAIN \o <<" ">> \o KW_SELECT \o <<" ", "1">>,
          KW_SELECT \o <<"(", "1", ")">>}

ClassifyInputs == TextsOf(ClassifyAtoms, MaxAtoms) \cup KeywordInputs

\* pieces the statements given to the rewriter and to the entry points are made of
RunAtoms == {KW_SELECT, KW_DELETE, <<" ">>, <<";">>, <<"-", "-", " ", "c">>}

\* the statement of the scenarios
SelectStarFromT == <<"s", "e", "l", "e", "c", "t", " ", "*", " ", "f", "r", "o", "m",
                     " ", "t">>

\* a statement that ends in white space and two terminators
SelectTwoTerminators == KW_SELECT \o <<" ", ";", ";">>

\* an accepted statement that begins with EXPLAIN and asks for ANALYZE
KW_ANALYZE == <<"A", "N", "A", "L", "Y", "Z", "E">>
ExplainAnalyzeSelect == KW_EXPLAIN \o <<" ">> \o KW_ANALYZE \o <<" ">> \o KW_SELECT

\* the statements given to the rewriter alone
WrapInputs == TextsOf(RunAtoms, MaxWrapAtoms) \cup {SelectStarFromT}

\* the statements given to the entry points
StatementInputs ==
    TextsOf(RunAtoms, MaxRunAtoms)
        \cup {SelectStarFromT, SelectTwoTerminators, ExplainAnalyzeSelect}

\* get_db_type accepts the four dialects; safe_execute and the rewriters take any tag
DbTypes == Dialects \cup {"sqlite"}

\* row caps: argparse takes any int for --limit
Caps == (-1..MaxCap) \cup {50}

-----------------------------------------------------------------------------
(* SQL texts of the four dialects *)

Txt_SelectStarFrom == <<"S", "E", "L", "E", "C", "T", " ", "*", " ", "F", "R", "O",
                        "M", " ", "(">>
Txt_WhereRownum == <<")", " ", "W", "H", "E", "R", "E", " ", "R", "O", "W", "N", "U",
                     "M", " ", "<", "=", " ">>
Txt_AsLimitedLimit == <<")", " ", "A", "S", " ", "_", "l", "i", "m", "i", "t", "e",
                        "d", " ", "L", "I", "M", "I", "T", " ">>
Txt_SelectTop == <<"S", "E", "L", "E", "C", "T", " ", "T", "O", "P", " ">>
Txt_StarFrom == <<" ", "*", " ", "F", "R", "O", "M", " ", "(">>
Txt_AsLimited == <<")", " ", "A", "S", " ", "_", "l", "i", "m", "i", "t", "e", "d">>
Txt_SelectCountFrom == <<"S", "E", "L", "E", "C", "T", " ", "C", "O", "U", "N", "T",
                         "(", "*", ")", " ", "F", "R", "O", "M", " ", "(">>
Txt_CloseParen == <<")">>
Txt_CountWrapper == <<"c", "o", "u", "n", "t", "_", "w", "r", "a", "p", "p", "e", "r">>
Txt_AsCountWrapper == <<")", " ", "A", "S", " ", "c", "o", "u", "n", "t", "_", "w",
                        "r", "a", "p", "p", "e", "r">>
Txt_SetMaxExecutionTime == <<"S", "E", "T", " ", "S", "E", "S", "S", "I", "O", "N",
                             " ", "M", "A", "X", "_", "E", "X", "E", "C", "U", "T",
                             "I", "O", "N", "_", "T", "I", "M", "E">>
Txt_SetStatementTimeout == <<"S", "E", "T", " ", "s", "t", "a", "t", "e", "m", "e",
                             "n", "t", "_", "t", "i", "m", "e", "o", "u", "t">>
Txt_WhereRownum50 == <<"W", "H", "E", "R", "E", " ", "R", "O", "W", "N", "U", "M", " ",
                       "<", "=", " ", "5", "0">>
Txt_Limit50 == <<"L", "I", "M", "I", "T", " ", "5", "0">>
Txt_SelectTop50 == <<"S", "E", "L", "E", "C", "T", " ", "T", "O", "P", " ", "5", "0">>

-----------------------------------------------------------------------------
(* The database behind cursor.execute and cursor.fetchall *)

\* the text is an int literal
IsIntLiteral(t) ==
    LET d == IF t # <<>> /\ t[1] = "-" THEN Tail(t) ELSE t
    IN  d # <<>> /\ \A k \in 1..Len(d) : d[k] \in Range(Digits)

RECURSIVE ParseNat(_)
ParseNat(t) ==
    IF t = <<>> THEN 0
    ELSE ParseNat(SubSeq(t, 1, Len(t) - 1)) * 10
         + ((CHOOSE i \in DOMAIN Digits : Digits[i] = t[Len(t)]) - 1)

ParseInt(t) == IF t[1] = "-" THEN 0 - ParseNat(Tail(t)) ELSE ParseNat(t)

\* what the engine reads of a statement: a line comment runs to the end of its line
EngineVisible(stmt) == strip_line_comments(stmt)

\* the text after the last occurrence of p in v (no text when p does not occur)
AfterLast(v, p) ==
    LET at == {i \in 1..Len(v) : StartsWithAt(v, i, p)}
    IN  IF at = {} THEN {}
        ELSE {SubSeq(v, (CHOOSE i \in at : \A k \in at : k <= i) + Len(p), Len(v))}

\* the text between the prefix p of v and the first occurrence of q after it
Between(v, p, q) ==
    LET at == {i \in (Len(p) + 1)..Len(v) : StartsWithAt(v, i, q)}
    IN  IF ~StartsWithAt(v, 1, p) \/ at = {} THEN {}
        ELSE {SubSeq(v, Len(p) + 1, (CHOOSE i \in at : \A k \in at : i <= k) - 1)}

EndsWith(v, p) == Len(p) <= Len(v) /\ SubSeq(v, Len(v) - Len(p) + 1, Len(v)) = p

\* the cap of the bounding clause the engine reads in the statement (no cap when
\* the clause is not there to read)
EngineCap(dbt, stmt) ==
    LET v == EngineVisible(stmt)
        lit == IF dbt = "oracle"
               THEN (IF StartsWithAt(v, 1, Txt_SelectStarFrom)
                     THEN AfterLast(v, Txt_WhereRownum) ELSE {})
               ELSE IF dbt = "sqlserver"
               THEN (IF EndsWith(v, Txt_AsLimited)
                     THEN Between(v, Txt_SelectTop, Txt_StarFrom) ELSE {})
               ELSE (IF StartsWithAt(v, 1, Txt_SelectStarFrom)
                     THEN AfterLast(v, Txt_AsLimitedLimit) ELSE {})
    IN  {ParseInt(t) : t \in {u \in lit : IsIntLiteral(u)}}

Min(a, b) == IF a <= b THEN a ELSE b

\* rows the engine returns for the statement sent, when the statement as given
\* returns n rows; no value when the engine rejects what it reads: ROWNUM <= c
\* keeps min(n, c) rows (none for c < 0), LIMIT c and TOP c keep min(n, c) rows and
\* reject c < 0, and a statement whose bounding clause is commented out does not
\* close its subquery. Under a tag that is no dialect the statement is sent as given.
EngineRows(dbt, stmt, n) ==
    IF dbt \notin Dialects THEN {n}
    ELSE {IF c < 0 THEN 0 ELSE Min(n, c) :
            c \in {k \in EngineCap(dbt, stmt) : k >= 0 \/ dbt = "oracle"}}

\* the count the engine returns for a count statement, when the statement as
\* given returns n rows
EngineCount(dbt, stmt, n) ==
    LET v == EngineVisible(stmt)
    IN  IF /\ StartsWithAt(v, 1, Txt_SelectCountFrom)
           /\ (EndsWith(v, Txt_CloseParen) \/ EndsWith(v, Txt_CountWrapper))
        THEN {n} ELSE {}

\* the rows of a result set of k rows
Rows(k) == [i \in 1..k |-> i]

-----------------------------------------------------------------------------
(* Outcomes of a call: what it did to the database and how it ended *)

\* the call has done nothing yet; dbt is the dialect tag it works under
Quiet(dbt) ==
    [db_type |-> dbt, total |-> -1, log |-> <<>>, fetched |-> <<>>, json |-> "none",
     opened |-> 0, closed |-> 0, cursors |-> 0, fault |-> "none", raised |-> <<>>,
     result |-> "none", error |-> "none"]

\* the driver call `at` raises
Raised(o, at) ==
    [o EXCEPT !.fault = at, !.raised = Append(@, at), !.error = "DriverError"]

\* cursor.execute(stmt) is called
Sent(o, stmt) == [o EXCEPT !.log = Append(@, stmt)]

\* the tags an alias may be configured with ({alias}_TYPE, lower-cased and stripped)
EnvTypes == Dialects \cup {"sqlite"}

\* db_connector.get_db_type: the tag, "ValueError" when it raises
get_db_type(cfg) ==
    IF cfg \notin {"oracle", "mysql", "postgresql", "sqlserver"} THEN "ValueError" ELSE cfg

get_connection_NoClose(o, body) ==
    {Raised(o, "connect")} \cup {[b EXCEPT !.opened = o.opened + 1] : b \in body}

\* db_connector.get_connection around the outcomes `body` of the with-block:
\* connecting may raise; a connection that was opened is closed in the finally
get_connection(o, body) ==
    {Raised(o, "connect")}
    \cup {[b EXCEPT !.opened = o.opened + 1, !.closed = o.closed + 1] : b \in body}

\* conn.cursor()
NewCursor(o) == [o EXCEPT !.cursors = @ + 1]

-----------------------------------------------------------------------------
(* run_query_safe.run_query and _count_query *)

Timeouts == 1..MaxTimeout

\* the timeout of run_query given in seconds, not milliseconds
rq_timeout_directive_Seconds(dbt, t) ==
    IF dbt = "mysql"
    THEN <<<<"S", "E", "T", " ", "S", "E", "S", "S", "I", "O", "N", " ", "M", "A", "X",
             "_", "E", "X", "E", "C", "U", "T", "I", "O", "N", "_", "T", "I", "M", "E",
             " ", "=", " ">> \o Str(t)>>
    ELSE IF dbt = "postgresql"
    THEN <<<<"S", "E", "T", " ", "s", "t", "a", "t", "e", "m", "e", "n", "t", "_", "t",
             "i", "m", "e", "o", "u", "t", " ", "=", " ", "'">> \o Str(t) \o <<"'">> >>
    ELSE <<>>

\* run_query, "Set timeout": the statements sent before the main query
rq_timeout_directive(dbt, t) ==
    IF dbt = "mysql"
    THEN <<<<"S", "E", "T", " ", "S", "E", "S", "S", "I", "O", "N", " ", "M", "A", "X",
             "_", "E", "X", "E", "C", "U", "T", "I", "O", "N", "_", "T", "I", "M", "E",
             " ", "=", " ">> \o Str(t * 1000)>>
    ELSE IF dbt = "postgresql"
    THEN <<<<"S", "E", "T", " ", "s", "t", "a", "t", "e", "m", "e", "n", "t", "_", "t",
             "i", "m", "e", "o", "u", "t", " ", "=", " ", "'">> \o Str(t * 1000) \o <<"'">> >>
    ELSE <<>>

\* _count_query: the statements sent before the count query
cq_timeout_directive(dbt, timeout) ==
    IF dbt = "mysql"
    THEN <<<<"S", "E", "T", " ", "S", "E", "S", "S", "I", "O", "N", " ", "M", "A", "X",
             "_", "E", "X", "E", "C", "U", "T", "I", "O", "N", "_", "T", "I", "M", "E",
             " ", "=", " ">> \o Str(timeout * 1000)>>
    ELSE IF dbt = "postgresql"
    THEN <<<<"S", "E", "T", " ", "s", "t", "a", "t", "e", "m", "e", "n", "t", "_", "t",
             "i", "m", "e", "o", "u", "t", " ", "=", " ", "'">> \o Str(timeout * 1000) \o <<"'">> >>
    ELSE <<>>

\* count_sql with the alias kept under every dialect
count_sql_AliasEverywhere(s, dbt) ==
    IF dbt = "sqlserver"
    THEN <<"S", "E", "L", "E", "C", "T", " ", "C", "O", "U", "N", "T", "(", "*", ")",
           " ", "F", "R", "O", "M", " ", "(">> \o s
         \o <<")", " ", "A", "S", " ", "c", "o", "u", "n", "t", "_", "w", "r", "a",
              "p", "p", "e", "r">>
    ELSE <<"S", "E", "L", "E", "C", "T", " ", "C", "O", "U", "N", "T", "(", "*", ")",
           " ", "F", "R", "O", "M", " ", "(">> \o s
         \o <<")", " ", "c", "o", "u", "n", "t", "_", "w", "r", "a", "p", "p", "e",
              "r">>

\* _count_query: count_sql
count_sql(s, dbt) ==
    IF dbt = "oracle"
    THEN <<"S", "E", "L", "E", "C", "T", " ", "C", "O", "U", "N", "T", "(", "*", ")",
           " ", "F", "R", "O", "M", " ", "(">> \o s \o <<")">>
    ELSE IF dbt = "sqlserver"
    THEN <<"S", "E", "L", "E", "C", "T", " ", "C", "O", "U", "N", "T", "(", "*", ")",
           " ", "F", "R", "O", "M", " ", "(">> \o s
         \o <<")", " ", "A", "S", " ", "c", "o", "u", "n", "t", "_", "w", "r", "a",
              "p", "p", "e", "r">>
    ELSE <<"S", "E", "L", "E", "C", "T", " ", "C", "O", "U", "N", "T", "(", "*", ")",
           " ", "F", "R", "O", "M", " ", "(">> \o s
         \o <<")", " ", "c", "o", "u", "n", "t", "_", "w", "r", "a", "p", "p", "e",
              "r">>

\* the dict of run_query with truncated set only above the cap
rq_result_StrictlyMore(rows, lim) ==
    [columns |-> "description", rows |-> rows, row_count |-> Len(rows),
     truncated |-> (Len(rows) > lim), row_limit |-> lim]

\* the dict run_query returns for the rows fetched
rq_result(rows, lim) ==
    [columns |-> "description", rows |-> rows, row_count |-> Len(rows),
     truncated |-> (Len(rows) >= lim), row_limit |-> lim]

\* the dict _count_query returns for the count fetched
cq_result(count) ==
    [columns |-> <<"COUNT">>, rows |-> <<<<count>>>>, row_count |-> 1,
     total_rows |-> count, truncated |-> FALSE]

\* a statement sequence is sent one by one; each execute may raise
RECURSIVE SendAll(_, _, _)
SendAll(o, stmts, at) ==
    IF stmts = <<>> THEN {o}
    ELSE {Raised(Sent(o, Head(stmts)), at)}
         \cup SendAll(Sent(o, Head(stmts)), Tail(stmts), at)

\* _count_query(cursor, sql, db_type, timeout)
count_query(o, s, dbt, timeout) ==
    LET pre == SendAll(o, cq_timeout_directive(dbt, timeout), "timeout")
        ready == {p \in pre : p.error = "none"}
        sent(p) == Sent(p, count_sql(s, dbt))
        counted(p, n) ==
            LET e == [sent(p) EXCEPT !.total = n]
                got == EngineCount(dbt, count_sql(s, dbt), n)
            IN  IF got = {} THEN {Raised(e, "engine")}
                ELSE {Raised(e, "fetch")}
                     \cup {[e EXCEPT !.fetched = <<g>>, !.result = cq_result(g)] : g \in got}
    IN  (pre \ ready)
        \cup {Raised(sent(p), "query") : p \in ready}
        \cup UNION {counted(p, n) : p \in ready, n \in 0..MaxRows}

\* run_query, after the count_only branch: timeout, wrap, execute, fetchall
rq_rows(o, s, dbt, lim, t) ==
    LET pre == SendAll(o, rq_timeout_directive(dbt, t), "timeout")
        ready == {p \in pre : p.error = "none"}
        wrapped == rqs_wrap_with_limit(s, lim, dbt)
        sent(p) == Sent(p, wrapped)
        run(p, n) ==
            LET e == [sent(p) EXCEPT !.total = n]
                got == EngineRows(dbt, wrapped, n)
            IN  IF got = {} THEN {Raised(e, "engine")}
                ELSE {Raised(e, "fetch")}
                     \cup {[e EXCEPT !.fetched = Rows(g), !.result = rq_result(Rows(g), lim)]
                            : g \in got}
    IN  (pre \ ready)
        \cup {Raised(sent(p), "query") : p \in ready}
        \cup UNION {run(p, n) : p \in ready, n \in 0..MaxRows}

\* the with-block of run_query
rq_body(o, s, dbt, lim, t, c) ==
    {Raised(o, "cursor")}
    \cup (IF c THEN count_query(NewCursor(o), s, dbt, t)
          ELSE rq_rows(NewCursor(o), s, dbt, lim, t))

run_query_ConnectFirst(s, lim, t, c) ==
    LET stripped == rstrip_semicolon(strip(s))
    IN  UNION {IF get_db_type(cfg) = "ValueError"
               THEN {[Quiet(cfg) EXCEPT !.error = "UnsupportedDialect"]}
               ELSE get_connection(Quiet(cfg),
                       IF ~is_select_only(stripped)
                       THEN {[Quiet(cfg) EXCEPT !.error = "NotReadOnly"]}
                       ELSE rq_body(Quiet(cfg), stripped, cfg, lim, t, c))
               : cfg \in EnvTypes}

\* run_query(sql, db_alias, row_limit, timeout_seconds, count_only): its outcomes
run_query(s, lim, t, c) ==
    LET stripped == rstrip_semicolon(strip(s))
    IN  IF ~is_select_only(stripped)
        THEN {[Quiet("none") EXCEPT !.error = "NotReadOnly"]}
        ELSE UNION {IF get_db_type(cfg) = "ValueError"
                    THEN {[Quiet(cfg) EXCEPT !.error = "UnsupportedDialect"]}
                    ELSE get_connection(Quiet(cfg),
                                        rq_body(Quiet(cfg), stripped, cfg, lim, t, c))
                    : cfg \in EnvTypes}

-----------------------------------------------------------------------------
(* db_connector.safe_execute *)

\* safe_execute, "Set statement timeout per database"
se_timeout_directive(dbt, t) ==
    IF dbt = "oracle" THEN <<>>
    ELSE IF dbt = "mysql"
    THEN <<<<"S", "E", "T", " ", "S", "E", "S", "S", "I", "O", "N", " ", "M", "A", "X",
             "_", "E", "X", "E", "C", "U", "T", "I", "O", "N", "_", "T", "I", "M", "E",
             " ", "=", " ">> \o Str(t * 1000)>>
    ELSE IF dbt = "postgresql"
    THEN <<<<"S", "E", "T", " ", "s", "t", "a", "t", "e", "m", "e", "n", "t", "_", "t",
             "i", "m", "e", "o", "u", "t", " ", "=", " ", "'">> \o Str(t * 1000) \o <<"'">> >>
    ELSE <<>>

\* safe_execute(cursor, sql, params, row_limit, timeout_seconds, db_type): its
\* outcomes; the cursor is the caller's, and params goes with the wrapped statement
\* into the same cursor.execute call
safe_execute(s, lim, t, dbt) ==
    IF ~is_select_only(s)
    THEN {[Quiet(dbt) EXCEPT !.error = "NotReadOnly"]}
    ELSE LET pre == SendAll(Quiet(dbt), se_timeout_directive(dbt, t), "timeout")
             ready == {p \in pre : p.error = "none"}
             wrapped == dbc_wrap_with_limit(s, lim, dbt)
             sent(p) == Sent(p, wrapped)
             run(p, n) ==
                 LET e == [sent(p) EXCEPT !.total = n]
                     got == EngineRows(dbt, wrapped, n)
                 IN  IF got = {} THEN {Raised(e, "engine")}
                     ELSE {Raised(e, "fetch")}
                          \cup {[e EXCEPT !.fetched = Rows(g), !.result = Rows(g)] : g \in got}
         IN  (pre \ ready)
             \cup {Raised(sent(p), "query") : p \in ready}
             \cup UNION {run(p, n) : p \in ready, n \in 0..MaxRows}

-----------------------------------------------------------------------------
(* explain_query: the plan analyzers *)

\* "\n".join(plan_lines)
RECURSIVE join_lines(_)
join_lines(lines) ==
    IF lines = <<>> THEN <<>>
    ELSE IF Len(lines) = 1 THEN lines[1]
    ELSE lines[1] \o <<"\n">> \o join_lines(Tail(lines))

\* `p in t` of two str
text_in(p, t) == \E i \in 1..(Len(t) - Len(p) + 1) : StartsWithAt(t, i, p)

\* where a greedy \s*, \S+ or \d+ that starts at i stops: the first position from
\* i on that is past the text or holds a character outside the class
RECURSIVE SpacesEnd(_, _)
SpacesEnd(t, i) == IF i <= Len(t) /\ IsSpace(t[i]) THEN SpacesEnd(t, i + 1) ELSE i

RECURSIVE NonSpacesEnd(_, _)
NonSpacesEnd(t, i) == IF i <= Len(t) /\ ~IsSpace(t[i]) THEN NonSpacesEnd(t, i + 1) ELSE i

RECURSIVE DigitsEnd(_, _)
DigitsEnd(t, i) ==
    IF i <= Len(t) /\ t[i] \in Range(Digits) THEN DigitsEnd(t, i + 1) ELSE i

\* an issue record; message holds the values the f-string of the message renders
\* (the words around them are the same for every record of a type)
Issue(severity, type, values) ==
    [severity |-> severity, type |-> type, message |-> values]

\* the match of r"TABLE ACCESS FULL\s*\|\s*(\S+)" at i: <<group 1, position after
\* the match>>, or <<>> when there is none
oracle_scan_match(t, i) ==
    LET bar == SpacesEnd(t, i + 17)
        name == SpacesEnd(t, bar + 1)
        end == NonSpacesEnd(t, name)
    IN  IF /\ StartsWithAt(t, i, <<"T", "A", "B", "L", "E", " ", "A", "C", "C", "E",
                                   "S", "S", " ", "F", "U", "L", "L">>)
           /\ bar <= Len(t)
           /\ t[bar] = "|"
           /\ end > name
        THEN <<SubSeq(t, name, end - 1), end>>
        ELSE <<>>

\* re.findall(r"TABLE ACCESS FULL\s*\|\s*(\S+)", t) from position i on
RECURSIVE oracle_scan_findall(_, _)
oracle_scan_findall(t, i) ==
    IF i > Len(t) THEN <<>>
    ELSE LET m == oracle_scan_match(t, i)
         IN  IF m = <<>> THEN oracle_scan_findall(t, i + 1)
             ELSE <<m[1]>> \o oracle_scan_findall(t, m[2])

\* the match of r"\|\s*(\d+)\s*\|" at i
oracle_cost_match(t, i) ==
    LET from == SpacesEnd(t, i + 1)
        to == DigitsEnd(t, from)
        bar == SpacesEnd(t, to)
    IN  IF /\ i <= Len(t)
           /\ t[i] = "|"
           /\ to > from
           /\ bar <= Len(t)
           /\ t[bar] = "|"
        THEN <<SubSeq(t, from, to - 1), bar + 1>>
        ELSE <<>>

\* re.findall(r"\|\s*(\d+)\s*\|", t) from position i on
RECURSIVE oracle_cost_findall(_, _)
oracle_cost_findall(t, i) ==
    IF i > Len(t) THEN <<>>
    ELSE LET m == oracle_cost_match(t, i)
         IN  IF m = <<>> THEN oracle_cost_findall(t, i + 1)
             ELSE <<m[1]>> \o oracle_cost_findall(t, m[2])

\* int(c) of a text of digits
int_of(c) == ParseNat(c)

\* max(...) of a non-empty sequence of ints
max_of(ns) == CHOOSE n \in Range(ns) : \A k \in Range(ns) : k <= n

\* three digits of n, with leading zeros
Pad3(n) == <<Digits[(n \div 100) + 1], Digits[((n \div 10) % 10) + 1], Digits[(n % 10) + 1]>>

\* f"{n:,}" of an int that is not negative
RECURSIVE with_commas(_)
with_commas(n) ==
    IF n < 1000 THEN StrNat(n) ELSE with_commas(n \div 1000) \o <<",">> \o Pad3(n % 1000)

\* _analyze_oracle_plan(plan_lines)
analyze_oracle_plan(plan_lines) ==
    LET full_text == join_lines(plan_lines)
        tables == oracle_scan_findall(full_text, 1)
        scans == IF text_in(<<"T", "A", "B", "L", "E", " ", "A", "C", "C", "E", "S",
                              "S", " ", "F", "U", "L", "L">>, full_text)
                 THEN [k \in 1..Len(tables) |-> Issue("WARNING", "FULL_TABLE_SCAN", <<tables[k]>>)]
                 ELSE <<>>
        cartesian == IF text_in(<<"M", "E", "R", "G", "E", " ", "J", "O", "I", "N",
                                  " ", "C", "A", "R", "T", "E", "S", "I", "A", "N">>, full_text)
                     THEN <<Issue("CRITICAL", "CARTESIAN_PRODUCT", <<>>)>> ELSE <<>>
        hash == IF text_in(<<"H", "A", "S", "H", " ", "J", "O", "I", "N">>, full_text)
                THEN <<Issue("INFO", "HASH_JOIN", <<>>)>> ELSE <<>>
        cost_matches == oracle_cost_findall(full_text, 1)
        max_cost == max_of([k \in 1..Len(cost_matches) |-> int_of(cost_matches[k])])
        cost == IF cost_matches # <<>> /\ max_cost > 100000
                THEN <<Issue("WARNING", "HIGH_COST", <<with_commas(max_cost)>>)>> ELSE <<>>
        issues == scans \o cartesian \o hash \o cost
    IN  IF issues = <<>> THEN <<Issue("OK", "NO_ISSUES", <<>>)>> ELSE issues

-----------------------------------------------------------------------------
\* _analyze_mysql_plan(rows, plan_json): a row is a dict of the EXPLAIN columns
\* type, table, rows and Extra (Extra empty when the column is NULL or empty)
RECURSIVE analyze_mysql_rows(_)
analyze_mysql_rows(rows) ==
    IF rows = <<>> THEN <<>>
    ELSE LET r == Head(rows)
         IN  (IF r.type = <<"A", "L", "L">>
              THEN <<Issue("WARNING", "FULL_TABLE_SCAN", <<r.table, r.rows>>)>> ELSE <<>>)
             \o (IF r.Extra # <<>> /\ text_in(<<"U", "s", "i", "n", "g", " ", "f", "i",
                                                "l", "e", "s", "o", "r", "t">>, r.Extra)
                 THEN <<Issue("INFO", "FILESORT", <<r.table>>)>> ELSE <<>>)
             \o (IF r.Extra # <<>> /\ text_in(<<"U", "s", "i", "n", "g", " ", "t", "e",
                                                "m", "p", "o", "r", "a", "r", "y">>, r.Extra)
                 THEN <<Issue("INFO", "TEMP_TABLE", <<r.table>>)>> ELSE <<>>)
             \o analyze_mysql_rows(Tail(rows))

analyze_mysql_plan(rows) ==
    LET issues == analyze_mysql_rows(rows)
    IN  IF issues = <<>> THEN <<Issue("OK", "NO_ISSUES", <<>>)>> ELSE issues

\* re.findall(r"Seq Scan on (\S+)", t) from position i on
RECURSIVE pg_scan_findall(_, _)
pg_scan_findall(t, i) ==
    IF i > Len(t) THEN <<>>
    ELSE LET name == i + 12
             end == NonSpacesEnd(t, name)
         IN  IF StartsWithAt(t, i, <<"S", "e", "q", " ", "S", "c", "a", "n", " ", "o",
                                     "n", " ">>) /\ end > name
             THEN <<SubSeq(t, name, end - 1)>> \o pg_scan_findall(t, end)
             ELSE pg_scan_findall(t, i + 1)

\* where a greedy [\d.]+ that starts at i stops
RECURSIVE CostCharsEnd(_, _)
CostCharsEnd(t, i) ==
    IF i <= Len(t) /\ t[i] \in Range(Digits) \cup {"."} THEN CostCharsEnd(t, i + 1) ELSE i

\* the match of r"cost=[\d.]+\.\.([\d.]+)" at j: the first group is the longest that
\* leaves ".." and a second group behind it
pg_cost_match(t, j) ==
    LET from == j + 5
        end == CostCharsEnd(t, from)
        dots == {a \in (from + 1)..(end - 3) : t[a] = "." /\ t[a + 1] = "."}
    IN  IF StartsWithAt(t, j, <<"c", "o", "s", "t", "=">>) /\ dots # {}
        THEN <<SubSeq(t, (CHOOSE a \in dots : \A b \in dots : b <= a) + 2, end - 1), end>>
        ELSE <<>>

\* the match of r"Nested Loop.*?cost=[\d.]+\.\.([\d.]+)" at i: .*? stays on the line
\* and stops at the first place the rest matches
pg_loop_match(t, i) ==
    LET from == i + 11
        at == {j \in from..Len(t) :
                 /\ \A k \in from..(j - 1) : t[k] # "\n"
                 /\ pg_cost_match(t, j) # <<>>}
    IN  IF StartsWithAt(t, i, <<"N", "e", "s", "t", "e", "d", " ", "L", "o", "o", "p">>) /\ at # {}
        THEN pg_cost_match(t, CHOOSE j \in at : \A k \in at : j <= k)
        ELSE <<>>

\* re.findall(r"Nested Loop.*?cost=[\d.]+\.\.([\d.]+)", t) from position i on
RECURSIVE pg_loop_findall(_, _)
pg_loop_findall(t, i) ==
    IF i > Len(t) THEN <<>>
    ELSE LET m == pg_loop_match(t, i)
         IN  IF m = <<>> THEN pg_loop_findall(t, i + 1)
             ELSE <<m[1]>> \o pg_loop_findall(t, m[2])

\* float(c) of a text of digits and dots is a number: one dot at most, and a digit
is_float(c) ==
    /\ Cardinality({k \in 1..Len(c) : c[k] = "."}) <= 1
    /\ \E k \in 1..Len(c) : c[k] # "."

\* float(c) > n, for a text c that float takes
float_above(c, n) ==
    LET dot == {k \in 1..Len(c) : c[k] = "."}
        whole == IF dot = {} THEN c ELSE SubSeq(c, 1, (CHOOSE k \in dot : TRUE) - 1)
        rest == IF dot = {} THEN <<>> ELSE SubSeq(c, (CHOOSE k \in dot : TRUE) + 1, Len(c))
    IN  \/ ParseNat(whole) > n
        \/ (ParseNat(whole) = n /\ \E k \in 1..Len(rest) : rest[k] # "0")

\* _analyze_pg_plan raises ValueError: float(c) of a cost that is no number
analyze_pg_plan_raises(plan_lines) ==
    LET full_text == join_lines(plan_lines)
        cost_match == pg_loop_findall(full_text, 1)
    IN  /\ text_in(<<"N", "e", "s", "t", "e", "d", " ", "L", "o", "o", "p">>, full_text)
        /\ \E k \in 1..Len(cost_match) : ~is_float(cost_match[k])

RECURSIVE pg_loop_issues(_)
pg_loop_issues(cost_match) ==
    IF cost_match = <<>> THEN <<>>
    ELSE (IF float_above(Head(cost_match), 100000)
          THEN <<Issue("WARNING", "NESTED_LOOP_HIGH_COST", <<Head(cost_match)>>)>>
          ELSE <<>>)
         \o pg_loop_issues(Tail(cost_match))

\* _analyze_pg_plan(plan_lines), when it returns
analyze_pg_plan(plan_lines) ==
    LET full_text == join_lines(plan_lines)
        tables == pg_scan_findall(full_text, 1)
        scans == IF text_in(<<"S", "e", "q", " ", "S", "c", "a", "n">>, full_text)
                 THEN [k \in 1..Len(tables) |-> Issue("WARNING", "FULL_TABLE_SCAN", <<tables[k]>>)]
                 ELSE <<>>
        loops == IF text_in(<<"N", "e", "s", "t", "e", "d", " ", "L", "o", "o", "p">>, full_text)
                 THEN pg_loop_issues(pg_loop_findall(full_text, 1)) ELSE <<>>
        issues == scans \o loops
    IN  IF issues = <<>> THEN <<Issue("OK", "NO_ISSUES", <<>>)>> ELSE issues

\* the SQL Server analyzer without the record for a plan in which nothing is found
analyze_sqlserver_plan_NoOk(plan_lines) ==
    LET full_text == join_lines(plan_lines)
    IN  (IF text_in(<<"T", "a", "b", "l", "e", " ", "S", "c", "a", "n">>, full_text) \/ text_in(<<
                                                                                                  "C",
                                                                                                  "l",
                                                                                                  "u",
                                                                                                  "s",
                                                                                                  "t",
                                                                                                  "e",
                                                                                                  "r",
                                                                                                  "e",
                                                                                                  "d",
                                                                                                  " ",
                                                                                                  "I",
                                                                                                  "n",
                                                                                                  "d",
                                                                                                  "e",
                                                                                                  "x",
                                                                                                  " ",
                                                                                                  "S",
                                                                                                  "c",
                                                                                                  "a",
                                                                                                  "n">>, full_text)
         THEN <<Issue("WARNING", "FULL_TABLE_SCAN", <<>>)>> ELSE <<>>)
        \o (IF text_in(<<"N", "e", "s", "t", "e", "d", " ", "L", "o", "o", "p", "s">>, full_text)
            THEN <<Issue("INFO", "NESTED_LOOPS", <<>>)>> ELSE <<>>)
        \o (IF text_in(<<"H", "a", "s", "h", " ", "M", "a", "t", "c", "h">>, full_text)
            THEN <<Issue("INFO", "HASH_JOIN", <<>>)>> ELSE <<>>)
        \o (IF text_in(<<"S", "o", "r", "t">>, full_text)
            THEN <<Issue("INFO", "SORT_OPERATION", <<>>)>> ELSE <<>>)

\* _analyze_sqlserver_plan(plan_lines)
analyze_sqlserver_plan(plan_lines) ==
    LET full_text == join_lines(plan_lines)
        issues ==
            (IF text_in(<<"T", "a", "b", "l", "e", " ", "S", "c", "a", "n">>, full_text) \/ text_in(<<
                                                                                                      "C",
                                                                                                      "l",
                                                                                                      "u",
                                                                                                      "s",
                                                                                                      "t",
                                                                                                      "e",
                                                                                                      "r",
                                                                                                      "e",
                                                                                                      "d",
                                                                                                      " ",
                                                                                                      "I",
                                                                                                      "n",
                                                                                                      "d",
                                                                                                      "e",
                                                                                                      "x",
                                                                                                      " ",
                                                                                                      "S",
                                                                                                      "c",
                                                                                                      "a",
                                                                                                      "n">>, full_text)
             THEN <<Issue("WARNING", "FULL_TABLE_SCAN", <<>>)>> ELSE <<>>)
            \o (IF text_in(<<"N", "e", "s", "t", "e", "d", " ", "L", "o", "o", "p",
                             "s">>, full_text)
                THEN <<Issue("INFO", "NESTED_LOOPS", <<>>)>> ELSE <<>>)
            \o (IF text_in(<<"H", "a", "s", "h", " ", "M", "a", "t", "c", "h">>, full_text)
                THEN <<Issue("INFO", "HASH_JOIN", <<>>)>> ELSE <<>>)
            \o (IF text_in(<<"S", "o", "r", "t">>, full_text)
                THEN <<Issue("INFO", "SORT_OPERATION", <<>>)>> ELSE <<>>)
    IN  IF issues = <<>> THEN <<Issue("OK", "NO_ISSUES", <<>>)>> ELSE issues

-----------------------------------------------------------------------------
(* explain_query.explain_query and the four plan retrievals *)

\* stmt_id = f"agent_{uuid.uuid4().hex[:12]}": two of the ids uuid4 may give
StmtIds ==
    {<<"a", "g", "e", "n", "t", "_", "0", "1", "2", "3", "4", "5", "6", "7", "8", "9",
       "a", "b">>,
     <<"a", "g", "e", "n", "t", "_", "f", "e", "d", "c", "b", "a", "9", "8", "7", "6",
       "5", "4">>}

\* the plans a cursor gives back for an explain under dialect d: one in which a
\* rule finds something, one in which none does
ExplainPlans(d) ==
    IF d = "oracle" THEN {<<<<"T", "A", "B", "L", "E", " ", "A", "C", "C", "E", "S",
                              "S", " ", "F", "U", "L", "L", " ", "|", " ", "E", "M",
                              "P", "L", "O", "Y", "E", "E", "S", " ", "|">>>>,
                          <<<<"|", " ", "7", " ", "|">>>>}
    ELSE IF d = "postgresql"
    THEN {<<<<"S", "e", "q", " ", "S", "c", "a", "n", " ", "o", "n", " ", "e", "m",
              "p", " ", " ", "(", "c", "o", "s", "t", "=", "0", ".", "0", "0", ".",
              ".", "1", ".", "0", "0", " ", "r", "o", "w", "s", "=", "1", ")">>>>,
          <<<<"R", "e", "s", "u", "l", "t", " ", " ", "(", "c", "o", "s", "t", "=",
              "0", ".", "0", "0", ".", ".", "0", ".", "0", "1", " ", "r", "o", "w",
              "s", "=", "1", ")">>>>}
    ELSE IF d = "sqlserver"
    THEN {<<<<" ", " ", "|", "-", "-", "T", "a", "b", "l", "e", " ", "S", "c", "a",
              "n", "(", "O", "B", "J", "E", "C", "T", ":", "(", "[", "e", "m", "p",
              "]", ")", ")">>>>,
          <<<<" ", " ", "|", "-", "-", "C", "o", "n", "s", "t", "a", "n", "t", " ",
              "S", "c", "a", "n">>>>}
    ELSE {<<[type |-> <<"A", "L", "L">>, table |-> <<"e", "m", "p">>, rows |-> <<"5">>,
             Extra |-> <<>>]>>,
          <<>>}

\* what fetchone gives for a JSON explain: a row with the plan tree, or no row
JsonRows == {"tree", "None"}

\* a fetch after the last execute: it raises or gives one of `rows`
Fetched(o, at, rows) == {Raised(o, at)} \cup {[o EXCEPT !.fetched = r] : r \in rows}

\* the outcomes that go on, and those that have ended with an exception
Going(os) == {o \in os : o.error = "none"}
Ended(os) == {o \in os : o.error # "none"}

\* cursor.execute(stmt) issued a second time when it raises
Execute_Reissue(os, stmt, at) ==
    Ended(os)
    \cup UNION {{Raised(Sent(Sent(o, stmt), stmt), at), Sent(Sent(o, stmt), stmt),
                 Sent(o, stmt)} : o \in Going(os)}

\* cursor.execute(stmt) from each outcome that goes on
Execute(os, stmt, at) ==
    Ended(os) \cup UNION {{Raised(Sent(o, stmt), at), Sent(o, stmt)} : o \in Going(os)}

\* a fetch from each outcome that goes on
Fetch(os, at, rows) == Ended(os) \cup UNION {Fetched(o, at, rows) : o \in Going(os)}

\* fetchone after a JSON explain: it raises or gives one of `rows`
FetchedJson(o, at, rows) == {Raised(o, at)} \cup {[o EXCEPT !.json = r] : r \in rows}

FetchJson(os, at, rows) == Ended(os) \cup UNION {FetchedJson(o, at, rows) : o \in Going(os)}

\* f"DELETE FROM PLAN_TABLE WHERE STATEMENT_ID = '{stmt_id}'"
Txt_DeletePlan(id) ==
    <<"D", "E", "L", "E", "T", "E", " ", "F", "R", "O", "M", " ", "P", "L", "A", "N",
      "_", "T", "A", "B", "L", "E", " ", "W", "H", "E", "R", "E", " ", "S", "T", "A",
      "T", "E", "M", "E", "N", "T", "_", "I", "D", " ", "=", " ", "'">>
    \o id \o <<"'">>

\* the cleanup with its failures raised to the caller
oracle_cleanup_Propagates(os, id) ==
    LET deleted == Execute(os, Txt_DeletePlan(id), "cleanup")
    IN  Ended(deleted) \cup UNION {{Raised(d, "commit"), d} : d \in Going(deleted)}

\* try: DELETE, cursor.connection.commit(); except Exception: pass
oracle_cleanup(os, id) ==
    LET deleted == Execute(os, Txt_DeletePlan(id), "cleanup")
        committed == Ended(deleted) \cup UNION {{Raised(d, "commit"), d} : d \in Going(deleted)}
    IN  {[c EXCEPT !.error = "none"] : c \in committed}

\* _oracle_explain(cursor, sql)
oracle_explain(o, s) ==
    UNION {
        LET explained ==
                Execute({o}, <<"E", "X", "P", "L", "A", "I", "N", " ", "P", "L", "A",
                               "N", " ", "S", "E", "T", " ", "S", "T", "A", "T", "E",
                               "M", "E", "N", "T", "_", "I", "D", " ", "=", " ", "'">> \o id
                             \o <<"'", " ", "F", "O", "R", " ">> \o s, "explain_plan")
            displayed ==
                Fetch(Execute(explained,
                              <<"\n", " ", " ", " ", " ", " ", " ", " ", " ", "S", "E",
                                "L", "E", "C", "T", " ", "P", "L", "A", "N", "_", "T",
                                "A", "B", "L", "E", "_", "O", "U", "T", "P", "U", "T",
                                "\n", " ", " ", " ", " ", " ", " ", " ", " ", "F", "R",
                                "O", "M", " ", "T", "A", "B", "L", "E", "(", "D", "B",
                                "M", "S", "_", "X", "P", "L", "A", "N", ".", "D", "I",
                                "S", "P", "L", "A", "Y", "(", "'", "P", "L", "A", "N",
                                "_", "T", "A", "B", "L", "E", "'", ",", " ", "'">>
                              \o id \o <<"'", ",", " ", "'", "A", "L", "L", "'", ")",
                                         ")", "\n", " ", " ", " ", " ">>,
                              "display"), "fetch_plan", ExplainPlans("oracle"))
            cleaned == oracle_cleanup(Going(displayed), id)
        IN  Ended(displayed)
            \cup {[c EXCEPT !.result = [db_type |-> "oracle", plan |-> c.fetched,
                                        issues |-> analyze_oracle_plan(c.fetched)]]
                   : c \in cleaned}
        : id \in StmtIds}

\* _mysql_explain(cursor, sql)
mysql_explain(o, s) ==
    LET json == FetchJson(Execute({o}, <<"E", "X", "P", "L", "A", "I", "N", " ", "F", "O",
                                     "R", "M", "A", "T", "=", "J", "S", "O", "N", " ">> \o s,
                              "explain_json"), "fetch_json", JsonRows)
        \* plan_json = json.loads(row[0]) if row else {}
        plan_json(j) == IF j.json = "None" THEN "{}" ELSE j.json
        rows(j) == Fetch(Execute({j}, <<"E", "X", "P", "L", "A", "I", "N", " ">> \o s, "explain"),
                         "fetch_plan", ExplainPlans("mysql"))
    IN  Ended(json)
        \cup UNION {Ended(rows(j))
                    \cup {[r EXCEPT !.result = [db_type |-> "mysql", plan |-> r.fetched,
                                                plan_json |-> plan_json(j),
                                                issues |-> analyze_mysql_plan(r.fetched)]]
                           : r \in Going(rows(j))}
                    : j \in Going(json)}

\* _pg_explain(cursor, sql)
pg_explain(o, s) ==
    LET text == Fetch(Execute({o}, <<"E", "X", "P", "L", "A", "I", "N", " ", "(", "F",
                                     "O", "R", "M", "A", "T", " ", "T", "E", "X", "T",
                                     ",", " ", "C", "O", "S", "T", "S", " ", "t", "r",
                                     "u", "e", ",", " ", "V", "E", "R", "B", "O", "S",
                                     "E", " ", "t", "r", "u", "e", ")", " ">>
                                   \o s, "explain"), "fetch_plan", ExplainPlans("postgresql"))
        json(t) == FetchJson(Execute({t}, <<"E", "X", "P", "L", "A", "I", "N", " ", "(",
                                        "F", "O", "R", "M", "A", "T", " ", "J", "S",
                                        "O", "N", ",", " ", "C", "O", "S", "T", "S",
                                        " ", "t", "r", "u", "e", ")", " ">> \o s,
                                 "explain_json"), "fetch_json", {"tree"})
    IN  Ended(text)
        \cup UNION {Ended(json(t))
                    \cup {IF analyze_pg_plan_raises(t.fetched)
                          THEN [r EXCEPT !.error = "ValueError"]
                          ELSE [r EXCEPT !.result = [db_type |-> "postgresql",
                                                     plan |-> t.fetched,
                                                     plan_json |-> r.json,
                                                     issues |-> analyze_pg_plan(t.fetched)]]
                           : r \in Going(json(t))}
                    : t \in Going(text)}

\* the SQL Server explain with show-plan mode turned off only after a plan was read
sqlserver_explain_NoFinally(o, s) ==
    LET on == Execute({o}, <<"S", "E", "T", " ", "S", "H", "O", "W", "P", "L", "A",
                             "N", "_", "T", "E", "X", "T", " ", "O", "N">>, "showplan_on")
        tried == Fetch(Execute(Going(on), s, "statement"), "fetch_plan",
                       ExplainPlans("sqlserver"))
        off == Execute(Going(tried), <<"S", "E", "T", " ", "S", "H", "O", "W", "P",
                                       "L", "A", "N", "_", "T", "E", "X", "T", " ",
                                       "O", "F", "F">>, "showplan_off")
    IN  Ended(on)
        \cup Ended(tried)
        \cup Ended(off)
        \cup {[r EXCEPT !.result = [db_type |-> "sqlserver", plan |-> r.fetched,
                                    issues |-> analyze_sqlserver_plan(r.fetched)]]
               : r \in Going(off)}

\* the SQL Server explain with the statement executed before show-plan mode is on
sqlserver_explain_StatementFirst(o, s) ==
    LET sent == Execute({o}, s, "statement")
        on == Execute(Going(sent), <<"S", "E", "T", " ", "S", "H", "O", "W", "P", "L",
                                     "A", "N", "_", "T", "E", "X", "T", " ", "O", "N">>,
                      "showplan_on")
        tried == Fetch(Going(on), "fetch_plan", ExplainPlans("sqlserver"))
        off == Execute(Going(tried), <<"S", "E", "T", " ", "S", "H", "O", "W", "P",
                                       "L", "A", "N", "_", "T", "E", "X", "T", " ",
                                       "O", "F", "F">>, "showplan_off")
    IN  Ended(sent)
        \cup Ended(on)
        \cup Ended(tried)
        \cup Ended(off)
        \cup {[r EXCEPT !.result = [db_type |-> "sqlserver", plan |-> r.fetched,
                                    issues |-> analyze_sqlserver_plan(r.fetched)]]
               : r \in Going(off)}

\* _sqlserver_explain(cursor, sql)
sqlserver_explain(o, s) ==
    LET on == Execute({o}, <<"S", "E", "T", " ", "S", "H", "O", "W", "P", "L", "A",
                             "N", "_", "T", "E", "X", "T", " ", "O", "N">>, "showplan_on")
        \* try: execute(sql), fetchall
        tried == Fetch(Execute(Going(on), s, "statement"), "fetch_plan",
                       ExplainPlans("sqlserver"))
        \* finally: SET SHOWPLAN_TEXT OFF; when it raises, its exception is the one raised
        off == UNION {{Raised(Sent(t, <<"S", "E", "T", " ", "S", "H", "O", "W", "P",
                                        "L", "A", "N", "_", "T", "E", "X", "T", " ",
                                        "O", "F", "F">>), "showplan_off"),
                       Sent(t, <<"S", "E", "T", " ", "S", "H", "O", "W", "P", "L", "A",
                                 "N", "_", "T", "E", "X", "T", " ", "O", "F", "F">>)} : t \in tried}
    IN  Ended(on)
        \cup Ended(off)
        \cup {[r EXCEPT !.result = [db_type |-> "sqlserver", plan |-> r.fetched,
                                    issues |-> analyze_sqlserver_plan(r.fetched)]]
               : r \in Going(off)}

\* _EXPLAIN_FUNCS[db_type](cursor, sql)
explain_func(o, s, dbt) ==
    IF dbt = "oracle" THEN oracle_explain(o, s)
    ELSE IF dbt = "mysql" THEN mysql_explain(o, s)
    ELSE IF dbt = "postgresql" THEN pg_explain(o, s)
    ELSE sqlserver_explain(o, s)

\* explain_query(sql, db_alias): its outcomes
explain_query(s) ==
    IF ~is_select_only(s)
    THEN {[Quiet("none") EXCEPT !.error = "NotReadOnly"]}
    ELSE UNION {IF get_db_type(cfg) = "ValueError"
                THEN {[Quiet(cfg) EXCEPT !.error = "UnsupportedDialect"]}
                ELSE get_connection(Quiet(cfg),
                        {Raised(Quiet(cfg), "cursor")}
                        \cup explain_func(NewCursor(Quiet(cfg)), s, cfg))
                : cfg \in EnvTypes}

-----------------------------------------------------------------------------
(* The system catalog behind the catalog queries *)

\* most foreign-key constraints a catalog holds
MaxFks == 2

\* a catalog with nothing declared
NoCatalog == [fks |-> {}, tables |-> {}]

\* NULL in a catalog row (no name of a catalog is the empty text)
Null == <<>>

\* the order of characters under ORDER BY (their code points)
Collation == Digits \o UpperCase \o <<"_">> \o LowerCase

CharRank(c) == CHOOSE i \in DOMAIN Collation : Collation[i] = c

\* a < b for texts under ORDER BY
RECURSIVE TextLess(_, _)
TextLess(a, b) ==
    IF b = <<>> THEN FALSE
    ELSE IF a = <<>> THEN TRUE
    ELSE IF Head(a) = Head(b) THEN TextLess(Tail(a), Tail(b))
    ELSE CharRank(Head(a)) < CharRank(Head(b))

\* a < b for the sort keys <<text, number>> of ORDER BY text, number
KeyLess(a, b) == TextLess(a[1], b[1]) \/ (a[1] = b[1] /\ a[2] < b[2])

\* the rows of a set in the order the engine happens to hold them
RECURSIVE SetToSeq(_)
SetToSeq(S) ==
    IF S = {} THEN <<>>
    ELSE LET x == CHOOSE y \in S : TRUE IN <<x>> \o SetToSeq(S \ {x})

Reverse(s) == [i \in 1..Len(s) |-> s[Len(s) + 1 - i]]

RECURSIVE InsertByKey(_, _)
InsertByKey(x, s) ==
    IF s = <<>> THEN <<x>>
    ELSE IF KeyLess(x.key, Head(s).key) THEN <<x>> \o s
    ELSE <<Head(s)>> \o InsertByKey(x, Tail(s))

\* a stable sort by key
RECURSIVE SortByKey(_)
SortByKey(s) ==
    IF s = <<>> THEN <<>>
    ELSE InsertByKey(s[Len(s)], SortByKey(SubSeq(s, 1, Len(s) - 1)))

\* the result sets an engine may give for the rows S (each with its sort key and
\* its select list): ORDER BY fixes the order of rows with different keys only,
\* rows of equal keys come as the engine holds them, in one direction or the other
OrderBy(S) ==
    {[i \in 1..Len(s) |-> s[i].row] :
        s \in {SortByKey(SetToSeq(S)), SortByKey(Reverse(SetToSeq(S)))}}

\* a foreign key of from_schema.from_table, whose columns from_cols reference,
\* position by position, the key columns to_cols of to_schema.to_table
ForeignKey(n, fs, ft, fc, ts, tt, tc) ==
    [name |-> n, from_schema |-> fs, from_table |-> ft, from_cols |-> fc,
     to_schema |-> ts, to_table |-> tt, to_cols |-> tc]

\* the name of the primary or unique key a foreign key references
KeyName(f) == <<"K", "_">> \o f.to_table \o <<"_">> \o f.to_cols[1]

\* Oracle: ALL_CONSTRAINTS (constraint names are unique within an owner)
ALL_CONSTRAINTS(cat) ==
    {[OWNER |-> f.from_schema, CONSTRAINT_NAME |-> f.name, CONSTRAINT_TYPE |-> "R",
      TABLE_NAME |-> f.from_table, R_OWNER |-> f.to_schema,
      R_CONSTRAINT_NAME |-> KeyName(f)] : f \in cat.fks}
    \cup {[OWNER |-> f.to_schema, CONSTRAINT_NAME |-> KeyName(f), CONSTRAINT_TYPE |-> "P",
           TABLE_NAME |-> f.to_table, R_OWNER |-> Null, R_CONSTRAINT_NAME |-> Null]
            : f \in cat.fks}

\* Oracle: ALL_CONS_COLUMNS
ALL_CONS_COLUMNS(cat) ==
    UNION {{[OWNER |-> f.from_schema, CONSTRAINT_NAME |-> f.name,
             COLUMN_NAME |-> f.from_cols[i], POSITION |-> i] : i \in DOMAIN f.from_cols}
           \cup {[OWNER |-> f.to_schema, CONSTRAINT_NAME |-> KeyName(f),
                  COLUMN_NAME |-> f.to_cols[i], POSITION |-> i] : i \in DOMAIN f.to_cols}
           : f \in cat.fks}

\* MySQL: INFORMATION_SCHEMA.KEY_COLUMN_USAGE (foreign-key names are unique within
\* a schema)
KEY_COLUMN_USAGE(cat) ==
    UNION {{[CONSTRAINT_NAME |-> f.name, TABLE_SCHEMA |-> f.from_schema,
             TABLE_NAME |-> f.from_table, COLUMN_NAME |-> f.from_cols[i],
             ORDINAL_POSITION |-> i, REFERENCED_TABLE_SCHEMA |-> f.to_schema,
             REFERENCED_TABLE_NAME |-> f.to_table,
             REFERENCED_COLUMN_NAME |-> f.to_cols[i]] : i \in DOMAIN f.from_cols}
           \cup {[CONSTRAINT_NAME |-> KeyName(f), TABLE_SCHEMA |-> f.to_schema,
                  TABLE_NAME |-> f.to_table, COLUMN_NAME |-> f.to_cols[i],
                  ORDINAL_POSITION |-> i, REFERENCED_TABLE_SCHEMA |-> Null,
                  REFERENCED_TABLE_NAME |-> Null, REFERENCED_COLUMN_NAME |-> Null]
                  : i \in DOMAIN f.to_cols}
           : f \in cat.fks}

\* PostgreSQL: information_schema.table_constraints (constraint names are unique
\* within a table)
pg_table_constraints(cat) ==
    {[constraint_name |-> f.name, table_schema |-> f.from_schema,
      table_name |-> f.from_table, constraint_type |-> "FOREIGN KEY"] : f \in cat.fks}
    \cup {[constraint_name |-> KeyName(f), table_schema |-> f.to_schema,
           table_name |-> f.to_table, constraint_type |-> "PRIMARY KEY"] : f \in cat.fks}

\* PostgreSQL: information_schema.key_column_usage
pg_key_column_usage(cat) ==
    UNION {{[constraint_name |-> f.name, table_schema |-> f.from_schema,
             table_name |-> f.from_table, column_name |-> f.from_cols[i]]
              : i \in DOMAIN f.from_cols}
           \cup {[constraint_name |-> KeyName(f), table_schema |-> f.to_schema,
                  table_name |-> f.to_table, column_name |-> f.to_cols[i]]
                  : i \in DOMAIN f.to_cols}
           : f \in cat.fks}

\* PostgreSQL: information_schema.constraint_column_usage (for a foreign key, the
\* columns it references; the view has a row for each constraint, `of` tells the
\* rows of foreign keys of one name on two tables apart)
pg_constraint_column_usage(cat) ==
    UNION {{[constraint_name |-> f.name, table_schema |-> f.to_schema,
             table_name |-> f.to_table, column_name |-> f.to_cols[i],
             of |-> <<f.from_schema, f.from_table>>]
              : i \in DOMAIN f.to_cols}
           \cup {[constraint_name |-> KeyName(f), table_schema |-> f.to_schema,
                  table_name |-> f.to_table, column_name |-> f.to_cols[i],
                  of |-> <<f.to_schema, f.to_table>>]
                  : i \in DOMAIN f.to_cols}
           : f \in cat.fks}

\* the catalog is one the dialect allows
WellFormed(dbt, cat) ==
    \A f, g \in cat.fks :
        (/\ f # g
         /\ f.name = g.name
         /\ f.from_schema = g.from_schema
         /\ (dbt = "postgresql" => f.from_table = g.from_table)) => FALSE

\* a table with its columns in COLUMN_ID order
Table(o, n, cs) == [owner |-> o, name |-> n, cols |-> cs]

\* the columns of owner.name, none when there is no such table
ColumnsOf(cat, o, n) ==
    IF \E x \in cat.tables : x.owner = o /\ x.name = n
    THEN (CHOOSE x \in cat.tables : x.owner = o /\ x.name = n).cols
    ELSE <<>>

\* x LIKE pattern: % stands for any text, _ for any one character
RECURSIVE Like(_, _)
Like(x, pattern) ==
    IF pattern = <<>> THEN x = <<>>
    ELSE IF Head(pattern) = "%"
         THEN Like(x, Tail(pattern)) \/ (x # <<>> /\ Like(Tail(x), pattern))
    ELSE IF Head(pattern) = "_" THEN x # <<>> /\ Like(Tail(x), Tail(pattern))
    ELSE x # <<>> /\ Head(x) = Head(pattern) /\ Like(Tail(x), Tail(pattern))

-----------------------------------------------------------------------------
(* find_relationships: the foreign-key resolvers *)

\* an element of the foreign_keys list
Edge(name, dir, fs, ft, fc, ts, tt, tc) ==
    [constraint_name |-> name, direction |-> dir, from_schema |-> fs, from_table |-> ft,
     from_column |-> fc, to_schema |-> ts, to_table |-> tt, to_column |-> tc]

\* the catalog statements, each named by its WHERE clause
Txt_OracleFkFrom == <<"c", ".", "O", "W", "N", "E", "R", " ", "=", " ", ":", "s", "c",
                      "h", "e", "m", "a", " ", "A", "N", "D", " ", "c", ".", "T", "A",
                      "B", "L", "E", "_", "N", "A", "M", "E", " ", "=", " ", ":", "t",
                      "n", "a", "m", "e">>
Txt_OracleFkTo == <<"r", ".", "O", "W", "N", "E", "R", " ", "=", " ", ":", "s", "c",
                    "h", "e", "m", "a", " ", "A", "N", "D", " ", "r", ".", "T", "A",
                    "B", "L", "E", "_", "N", "A", "M", "E", " ", "=", " ", ":", "t",
                    "n", "a", "m", "e">>
Txt_MysqlFkFrom == <<"T", "A", "B", "L", "E", "_", "S", "C", "H", "E", "M", "A", " ",
                     "=", " ", "%", "s", " ", "A", "N", "D", " ", "T", "A", "B", "L",
                     "E", "_", "N", "A", "M", "E", " ", "=", " ", "%", "s">>
Txt_MysqlFkTo == <<"R", "E", "F", "E", "R", "E", "N", "C", "E", "D", "_", "T", "A",
                   "B", "L", "E", "_", "S", "C", "H", "E", "M", "A", " ", "=", " ",
                   "%", "s", " ", "A", "N", "D", " ", "R", "E", "F", "E", "R", "E",
                   "N", "C", "E", "D", "_", "T", "A", "B", "L", "E", "_", "N", "A",
                   "M", "E", " ", "=", " ", "%", "s">>
Txt_PgFk == <<"t", "c", ".", "c", "o", "n", "s", "t", "r", "a", "i", "n", "t", "_",
              "t", "y", "p", "e", " ", "=", " ", "'", "F", "O", "R", "E", "I", "G",
              "N", " ", "K", "E", "Y", "'">>

\* the result sets of a foreign-key query of _oracle_find_fk: ALL_CONSTRAINTS c
\* joined with its columns cc, the referenced constraint r and its columns rc of the
\* same position, restricted to the referencing (c) or the referenced (r) table
oracle_fk_rows(cat, s, t, side) ==
    LET C == ALL_CONSTRAINTS(cat)
        CC == ALL_CONS_COLUMNS(cat)
        joined ==
            UNION {UNION {UNION {
                {[c |-> c, cc |-> cc, r |-> r, rc |-> rc] :
                    rc \in {x \in CC : /\ x.CONSTRAINT_NAME = r.CONSTRAINT_NAME
                                       /\ x.OWNER = r.OWNER
                                       /\ x.POSITION = cc.POSITION}}
                : r \in {x \in C : /\ x.CONSTRAINT_NAME = c.R_CONSTRAINT_NAME
                                   /\ x.OWNER = c.R_OWNER}}
                : cc \in {x \in CC : /\ x.CONSTRAINT_NAME = c.CONSTRAINT_NAME
                                     /\ x.OWNER = c.OWNER}}
                : c \in {x \in C : x.CONSTRAINT_TYPE = "R"}}
        where(j) == IF side = "referencing"
                    THEN j.c.OWNER = s /\ j.c.TABLE_NAME = t
                    ELSE j.r.OWNER = s /\ j.r.TABLE_NAME = t
    IN  OrderBy({[key |-> <<j.c.CONSTRAINT_NAME, j.cc.POSITION>>,
                  row |-> <<j.c.CONSTRAINT_NAME, j.c.TABLE_NAME, j.cc.COLUMN_NAME,
                            j.r.TABLE_NAME, j.rc.COLUMN_NAME, j.c.OWNER, j.r.OWNER>>,
                  id |-> j] : j \in {x \in joined : where(x)}})

\* _oracle_find_fk(cursor, schema, table_name): its outcomes, the list returned in
\* the result of those that go on
oracle_find_fk(o, cat, s, t) ==
    LET edges(rows, dir) ==
            [i \in DOMAIN rows |->
                Edge(rows[i][1], dir, rows[i][6], rows[i][2], rows[i][3],
                     rows[i][7], rows[i][4], rows[i][5])]
        from == Fetch(Execute({o}, Txt_OracleFkFrom, "fk_from"), "fetch_fk_from",
                      oracle_fk_rows(cat, s, t, "referencing"))
        to(g) == Fetch(Execute({g}, Txt_OracleFkTo, "fk_to"), "fetch_fk_to",
                       oracle_fk_rows(cat, s, t, "referenced"))
    IN  Ended(from)
        \cup UNION {Ended(to(g))
                    \cup {[h EXCEPT !.result = edges(g.fetched, "OUTGOING")
                                               \o edges(h.fetched, "INCOMING")]
                           : h \in Going(to(g))}
                    : g \in Going(from)}

\* the result sets of the two queries of _mysql_find_fk on KEY_COLUMN_USAGE
mysql_fk_rows(cat, s, t, side) ==
    LET K == KEY_COLUMN_USAGE(cat)
    IN  IF side = "referencing"
        THEN OrderBy({[key |-> <<k.CONSTRAINT_NAME, k.ORDINAL_POSITION>>,
                       row |-> <<k.CONSTRAINT_NAME, k.TABLE_NAME, k.COLUMN_NAME,
                                 k.REFERENCED_TABLE_SCHEMA, k.REFERENCED_TABLE_NAME,
                                 k.REFERENCED_COLUMN_NAME>>,
                       id |-> k]
                      : k \in {x \in K : /\ x.TABLE_SCHEMA = s
                                         /\ x.TABLE_NAME = t
                                         /\ x.REFERENCED_TABLE_NAME # Null}})
        ELSE OrderBy({[key |-> <<k.CONSTRAINT_NAME, k.ORDINAL_POSITION>>,
                       row |-> <<k.CONSTRAINT_NAME, k.TABLE_SCHEMA, k.TABLE_NAME,
                                 k.COLUMN_NAME, k.REFERENCED_COLUMN_NAME>>,
                       id |-> k]
                      : k \in {x \in K : /\ x.REFERENCED_TABLE_SCHEMA = s
                                         /\ x.REFERENCED_TABLE_NAME = t}})

\* _mysql_find_fk(cursor, schema, table_name)
mysql_find_fk(o, cat, s, t) ==
    LET outgoing(rows) ==
            [i \in DOMAIN rows |->
                Edge(rows[i][1], "OUTGOING", s, rows[i][2], rows[i][3],
                     rows[i][4], rows[i][5], rows[i][6])]
        incoming(rows) ==
            [i \in DOMAIN rows |->
                Edge(rows[i][1], "INCOMING", rows[i][2], rows[i][3], rows[i][4],
                     s, t, rows[i][5])]
        from == Fetch(Execute({o}, Txt_MysqlFkFrom, "fk_from"), "fetch_fk_from",
                      mysql_fk_rows(cat, s, t, "referencing"))
        to(g) == Fetch(Execute({g}, Txt_MysqlFkTo, "fk_to"), "fetch_fk_to",
                       mysql_fk_rows(cat, s, t, "referenced"))
    IN  Ended(from)
        \cup UNION {Ended(to(g))
                    \cup {[h EXCEPT !.result = outgoing(g.fetched) \o incoming(h.fetched)]
                           : h \in Going(to(g))}
                    : g \in Going(from)}

\* the result sets of the query of _pg_find_fk: table_constraints tc joined with
\* key_column_usage kcu and constraint_column_usage ccu, each on the constraint
\* name and the table schema, ordered by the constraint name
pg_fk_rows(cat, s, t) ==
    LET joined ==
            UNION {UNION {
                {[tc |-> tc, kcu |-> kcu, ccu |-> ccu] :
                    ccu \in {x \in pg_constraint_column_usage(cat) :
                                /\ tc.constraint_name = x.constraint_name
                                /\ tc.table_schema = x.table_schema}}
                : kcu \in {x \in pg_key_column_usage(cat) :
                                /\ tc.constraint_name = x.constraint_name
                                /\ tc.table_schema = x.table_schema}}
                : tc \in {x \in pg_table_constraints(cat) :
                                x.constraint_type = "FOREIGN KEY"}}
        where(j) == \/ j.kcu.table_schema = s /\ j.kcu.table_name = t
                    \/ j.ccu.table_schema = s /\ j.ccu.table_name = t
    IN  OrderBy({[key |-> <<j.tc.constraint_name, 0>>,
                  row |-> <<j.tc.constraint_name, j.kcu.table_schema, j.kcu.table_name,
                            j.kcu.column_name, j.ccu.table_schema, j.ccu.table_name,
                            j.ccu.column_name>>,
                  id |-> j] : j \in {x \in joined : where(x)}})

\* _pg_find_fk(cursor, schema, table_name)
pg_find_fk(o, cat, s, t) ==
    LET edges(rows) ==
            [i \in DOMAIN rows |->
                Edge(rows[i][1], IF rows[i][3] = t THEN "OUTGOING" ELSE "INCOMING",
                     rows[i][2], rows[i][3], rows[i][4], rows[i][5], rows[i][6],
                     rows[i][7])]
        all == Fetch(Execute({o}, Txt_PgFk, "fk"), "fetch_fk", pg_fk_rows(cat, s, t))
    IN  Ended(all) \cup {[g EXCEPT !.result = edges(g.fetched)] : g \in Going(all)}

-----------------------------------------------------------------------------
(* find_relationships: the naming hints *)

Txt_OracleColumns == <<"O", "W", "N", "E", "R", " ", "=", " ", ":", "s", "c", "h", "e",
                       "m", "a", " ", "A", "N", "D", " ", "T", "A", "B", "L", "E", "_",
                       "N", "A", "M", "E", " ", "=", " ", ":", "t", "n", "a", "m", "e">>
Txt_OracleTables == <<"t", ".", "O", "W", "N", "E", "R", " ", "=", " ", ":", "s", "c",
                      "h", "e", "m", "a">>
Txt_OraclePkColumns == <<"C", "O", "L", "U", "M", "N", "_", "N", "A", "M", "E", " ",
                         "I", "N", " ", "(", ":", "p", "k", "1", ",", " ", ":", "p",
                         "k", "2", ",", " ", ":", "p", "k", "3", ")">>

\* for suffix in ("_ID", "_CODE", "_KEY", "_NO", "_NUM")
HintSuffixes ==
    <<<<"_", "I", "D">>, <<"_", "C", "O", "D", "E">>, <<"_", "K", "E", "Y">>,
      <<"_", "N", "O">>, <<"_", "N", "U", "M">>>>

\* str.lstrip("_")
RECURSIVE lstrip_underscore(_)
lstrip_underscore(x) ==
    IF x # <<>> /\ Head(x) = "_" THEN lstrip_underscore(Tail(x)) ELSE x

\* the elements of fk_patterns that the column col adds, for the suffixes from k on
RECURSIVE patterns_of_column(_, _, _)
patterns_of_column(col, table_name, k) ==
    IF k > Len(HintSuffixes) THEN <<>>
    ELSE LET suffix == HintSuffixes[k]
             prefix == SubSeq(col, 1, Len(col) - Len(suffix))
         IN  (IF EndsWith(col, suffix) /\ prefix # <<>> /\ prefix # table_name
              THEN <<[fk_col |-> col, prefix |-> prefix,
                      pk_suffix |-> lstrip_underscore(suffix)]>>
              ELSE <<>>)
             \o patterns_of_column(col, table_name, k + 1)

\* fk_patterns
RECURSIVE fk_patterns(_, _)
fk_patterns(columns, table_name) ==
    IF columns = <<>> THEN <<>>
    ELSE patterns_of_column(Head(columns), table_name, 1)
         \o fk_patterns(Tail(columns), table_name)

\* the result set of the columns query: the columns of schema.tname by COLUMN_ID
oracle_column_rows(cat, s, t) ==
    LET cols == ColumnsOf(cat, s, t)
    IN  OrderBy({[key |-> <<Null, i>>, row |-> <<cols[i]>>, id |-> i] : i \in DOMAIN cols})

\* the result sets of the tables query (no ORDER BY)
oracle_table_rows(cat, s, prefix) ==
    OrderBy({[key |-> <<Null, 0>>, row |-> <<x.name, x.owner>>, id |-> x] :
                x \in {y \in cat.tables :
                        /\ y.owner = s
                        /\ \/ y.name = prefix
                           \/ Like(y.name, <<"%">> \o prefix \o <<"%">>)
                           \/ Like(y.name, prefix \o <<"%">>)}})

\* the result sets of the key-column query on the table m (no ORDER BY)
oracle_pk_rows(cat, s, m, p) ==
    LET cols == ColumnsOf(cat, s, m)
    IN  OrderBy({[key |-> <<Null, 0>>, row |-> <<cols[i]>>, id |-> i] :
                    i \in {k \in DOMAIN cols :
                            cols[k] \in {p.pk_suffix, m \o <<"_">> \o p.pk_suffix, p.fk_col}}})

\* an element of the naming_hints list
Hint(ft, fc, ts, tt, tc) ==
    [type |-> "NAMING_CONVENTION", from_table |-> ft, from_column |-> fc,
     to_schema |-> ts, to_table |-> tt, to_column |-> tc, confidence |-> "MEDIUM"]

\* for m in matches: the outcomes, the hints so far in the result of those that go on
RECURSIVE hints_of_matches(_, _, _, _, _, _)
hints_of_matches(os, cat, s, t, p, matches) ==
    IF matches = <<>> THEN os
    ELSE LET m == Head(matches)
             step(o) ==
                LET pk == Fetch(Execute({o}, Txt_OraclePkColumns, "pk_columns"),
                                "fetch_pk_columns", oracle_pk_rows(cat, s, m[1], p))
                IN  Ended(pk)
                    \cup {IF g.fetched # <<>>
                          THEN [g EXCEPT !.result =
                                    Append(@, Hint(t, p.fk_col, m[2], m[1], g.fetched[1][1]))]
                          ELSE g
                           : g \in Going(pk)}
         IN  hints_of_matches(Ended(os) \cup UNION {step(o) : o \in Going(os)},
                              cat, s, t, p, Tail(matches))

\* for fk_col, prefix, pk_suffix in fk_patterns
RECURSIVE hints_of_patterns(_, _, _, _, _)
hints_of_patterns(os, cat, s, t, patterns) ==
    IF patterns = <<>> THEN os
    ELSE LET p == Head(patterns)
             step(o) ==
                LET found == Fetch(Execute({o}, Txt_OracleTables, "tables"), "fetch_tables",
                                   oracle_table_rows(cat, s, p.prefix))
                IN  Ended(found)
                    \cup UNION {hints_of_matches({g}, cat, s, t, p, g.fetched)
                                : g \in Going(found)}
         IN  hints_of_patterns(Ended(os) \cup UNION {step(o) : o \in Going(os)},
                               cat, s, t, Tail(patterns))

\* _oracle_find_naming_hints(cursor, schema, table_name)
oracle_find_naming_hints(o, cat, s, t) ==
    LET columns == Fetch(Execute({[o EXCEPT !.result = <<>>]}, Txt_OracleColumns, "columns"),
                         "fetch_columns", oracle_column_rows(cat, s, t))
    IN  Ended(columns)
        \cup UNION {hints_of_patterns({g}, cat, s, t,
                                      fk_patterns([i \in DOMAIN g.fetched |-> g.fetched[i][1]], t))
                    : g \in Going(columns)}

\* _mysql_find_naming_hints and _pg_find_naming_hints: return []
no_naming_hints(o) == {[o EXCEPT !.result = <<>>]}

\* _FK_FUNCS: the dialects with a resolver
FkDialects == {"oracle", "mysql", "postgresql"}

\* fk_func(cursor, schema, table_name)
fk_func(dbt, o, cat, s, t) ==
    IF dbt = "oracle" THEN oracle_find_fk(o, cat, s, t)
    ELSE IF dbt = "mysql" THEN mysql_find_fk(o, cat, s, t)
    ELSE pg_find_fk(o, cat, s, t)

\* hint_func(cursor, schema, table_name)
hint_func(dbt, o, cat, s, t) ==
    IF dbt = "oracle" THEN oracle_find_naming_hints(o, cat, s, t) ELSE no_naming_hints(o)

\* an outcome that ended with an exception returns nothing
Returned(os) == {IF o.error = "none" THEN o ELSE [o EXCEPT !.result = "none"] : o \in os}

\* find_relationships(schema, table_name, db_alias): its outcomes
find_relationships(cat, s, t) ==
    UNION {IF get_db_type(cfg) = "ValueError"
           THEN {[Quiet(cfg) EXCEPT !.error = "UnsupportedDialect"]}
           ELSE IF cfg \notin FkDialects
           THEN {[Quiet(cfg) EXCEPT !.error = "KeyError"]}
           ELSE get_connection(Quiet(cfg),
                    {Raised(Quiet(cfg), "cursor")}
                    \cup Returned(
                        LET fks == fk_func(cfg, NewCursor(Quiet(cfg)), cat, s, t)
                        IN  Ended(fks)
                            \cup UNION {
                                {IF h.error = "none"
                                 THEN [h EXCEPT !.result =
                                          [schema |-> s, table |-> t, db_type |-> cfg,
                                           foreign_keys |-> g.result,
                                           naming_hints |-> h.result]]
                                 ELSE h
                                  : h \in hint_func(cfg, g, cat, s, t)}
                                : g \in Going(fks)}))
           : cfg \in EnvTypes}

-----------------------------------------------------------------------------
(* find_join_between and _find_join_path *)

Txt_OracleJoinColumns == <<"O", "W", "N", "E", "R", " ", "=", " ", ":", "s", " ", "A",
                           "N", "D", " ", "T", "A", "B", "L", "E", "_", "N", "A", "M",
                           "E", " ", "I", "N", " ", "(", ":", "t", "1", ",", " ", ":",
                           "t", "2", ")">>
Txt_MysqlJoinColumns == <<"T", "A", "B", "L", "E", "_", "S", "C", "H", "E", "M", "A",
                          " ", "=", " ", "%", "s", " ", "A", "N", "D", " ", "T", "A",
                          "B", "L", "E", "_", "N", "A", "M", "E", " ", "I", "N", " ",
                          "(", "%", "s", ",", " ", "%", "s", ")">>
Txt_PgJoinColumns == <<"n", ".", "n", "s", "p", "n", "a", "m", "e", " ", "=", " ", "%",
                       "s", " ", "A", "N", "D", " ", "c", ".", "r", "e", "l", "n", "a",
                       "m", "e", " ", "I", "N", " ", "(", "%", "s", ",", " ", "%", "s",
                       ")">>

\* str.endswith(("_ID", "_KEY", "_CODE"))
ends_with_key_suffix(c) ==
    \/ EndsWith(c, <<"_", "I", "D">>)
    \/ EndsWith(c, <<"_", "K", "E", "Y">>)
    \/ EndsWith(c, <<"_", "C", "O", "D", "E">>)

\* for suffix in ("_ID", "_CODE", "_KEY")
JoinSuffixes == <<<<"_", "I", "D">>, <<"_", "C", "O", "D", "E">>, <<"_", "K", "E", "Y">>>>

\* the orders in which a for loop may go through a set of str: any
RECURSIVE set_iter(_)
set_iter(S) ==
    IF S = {} THEN {<<>>}
    ELSE UNION {{<<x>> \o l : l \in set_iter(S \ {x})} : x \in S}

\* an element of the list _find_join_path returns
Path(type, t1, c1, t2, c2, confidence) ==
    [type |-> type,
     join |-> t1 \o <<".">> \o c1 \o <<" ", "=", " ">> \o t2 \o <<".">> \o c2,
     confidence |-> confidence]

\* the result set of the columns query of _find_join_path: the columns of the two
\* tables by table name and column position
join_column_rows(cat, s, t1, t2) ==
    OrderBy(UNION {{[key |-> <<x.name, i>>, row |-> <<x.name, x.cols[i]>>, id |-> i]
                     : i \in DOMAIN x.cols}
                   : x \in {y \in cat.tables : y.owner = s /\ y.name \in {t1, t2}}})

\* cols.get(table, []) as a set
cols_get(rows, table) == {rows[i][2] : i \in {k \in DOMAIN rows : rows[k][1] = table}}

\* for c in common, with every shared column at confidence MEDIUM
common_paths_AllMedium(order, t1, t2) ==
    [i \in DOMAIN order |->
        Path("COMMON_COLUMN", t1, order[i], t2, order[i], "MEDIUM")]

\* for c in common
common_paths(order, t1, t2) ==
    [i \in DOMAIN order |->
        Path("COMMON_COLUMN", t1, order[i], t2, order[i],
             IF ends_with_key_suffix(order[i]) THEN "HIGH" ELSE "MEDIUM")]

\* the paths of a column with the column's own name taken first as the key of `here`
RECURSIVE naming_paths_of_column_OwnNameFirst(_, _, _, _, _, _)
naming_paths_of_column_OwnNameFirst(c, here, cols_here, there, first, k) ==
    IF k > Len(JoinSuffixes) THEN <<>>
    ELSE LET suffix == JoinSuffixes[k]
             pk_guess == lstrip_underscore(suffix)
             pk == IF c \in cols_here THEN c ELSE pk_guess
         IN  (IF /\ StartsWithAt(c, 1, here)
                 /\ EndsWith(c, suffix)
                 /\ (pk_guess \in cols_here \/ c \in cols_here)
              THEN <<IF first
                     THEN Path("NAMING_CONVENTION", here, pk, there, c, "MEDIUM")
                     ELSE Path("NAMING_CONVENTION", there, c, here, pk, "MEDIUM")>>
              ELSE <<>>)
             \o naming_paths_of_column_OwnNameFirst(c, here, cols_here, there, first, k + 1)

\* the paths the column c of `there` adds, for the suffixes from k on, when `here`
\* is the table it is named after: first is TRUE when `here` is table1
RECURSIVE naming_paths_of_column(_, _, _, _, _, _)
naming_paths_of_column(c, here, cols_here, there, first, k) ==
    IF k > Len(JoinSuffixes) THEN <<>>
    ELSE LET suffix == JoinSuffixes[k]
             pk_guess == lstrip_underscore(suffix)
             pk == IF pk_guess \in cols_here THEN pk_guess ELSE c
         IN  (IF /\ StartsWithAt(c, 1, here)
                 /\ EndsWith(c, suffix)
                 /\ (pk_guess \in cols_here \/ c \in cols_here)
              THEN <<IF first
                     THEN Path("NAMING_CONVENTION", here, pk, there, c, "MEDIUM")
                     ELSE Path("NAMING_CONVENTION", there, c, here, pk, "MEDIUM")>>
              ELSE <<>>)
             \o naming_paths_of_column(c, here, cols_here, there, first, k + 1)

\* for c2 in cols2 (first) and for c1 in cols1
RECURSIVE naming_paths(_, _, _, _, _)
naming_paths(order, here, cols_here, there, first) ==
    IF order = <<>> THEN <<>>
    ELSE naming_paths_of_column(Head(order), here, cols_here, there, first, 1)
         \o naming_paths(Tail(order), here, cols_here, there, first)

\* the lists built without the loop over the columns of table1
join_paths_NoFirstTableLoop(rows, t1, t2) ==
    LET cols1 == cols_get(rows, t1)
        cols2 == cols_get(rows, t2)
        common == {common_paths(c, t1, t2) : c \in set_iter(cols1 \cap cols2)}
        named2 == {naming_paths(c2, t1, cols1, t2, TRUE) : c2 \in set_iter(cols2)}
    IN  {c \o n2 : c \in common, n2 \in named2}

\* the lists _find_join_path may build from the rows fetched
join_paths(rows, t1, t2) ==
    LET cols1 == cols_get(rows, t1)
        cols2 == cols_get(rows, t2)
        common == {common_paths(c, t1, t2) : c \in set_iter(cols1 \cap cols2)}
        named2 == {naming_paths(c2, t1, cols1, t2, TRUE) : c2 \in set_iter(cols2)}
        named1 == {naming_paths(c1, t2, cols2, t1, FALSE) : c1 \in set_iter(cols1)}
    IN  {c \o n2 \o n1 : c \in common, n2 \in named2, n1 \in named1}

\* _find_join_path(cursor, schema, table1, table2, db_type): its outcomes, all_paths in
\* the result of those that go on
find_join_path(o, cat, s, t1, t2, dbt) ==
    LET asked == IF dbt = "oracle" THEN Execute({o}, Txt_OracleJoinColumns, "columns")
                 ELSE IF dbt = "mysql" THEN Execute({o}, Txt_MysqlJoinColumns, "columns")
                 ELSE IF dbt = "postgresql" THEN Execute({o}, Txt_PgJoinColumns, "columns")
                 ELSE {o}
        \* pyodbc raises when nothing was executed on the cursor
        rows == IF dbt \in FkDialects
                THEN Fetch(asked, "fetch_columns", join_column_rows(cat, s, t1, t2))
                ELSE {Raised(o, "fetch_columns")}
    IN  Ended(rows)
        \cup UNION {{[g EXCEPT !.result = @ \o [i \in DOMAIN ps |->
                                    [type |-> ps[i].type, join |-> ps[i].join,
                                     confidence |-> ps[i].confidence,
                                     table1 |-> t1, table2 |-> t2]]]
                      : ps \in join_paths(g.fetched, t1, t2)}
                    : g \in Going(rows)}

\* for j in range(i + 1, len(tables)), from j on
RECURSIVE join_inner(_, _, _, _, _, _, _)
join_inner(os, cat, s, ts, dbt, i, j) ==
    IF j > Len(ts) THEN os
    ELSE join_inner(Ended(os) \cup UNION {find_join_path(o, cat, s, ts[i], ts[j], dbt)
                                          : o \in Going(os)},
                    cat, s, ts, dbt, i, j + 1)

\* for i in range(len(tables)), from i on
RECURSIVE join_outer(_, _, _, _, _, _)
join_outer(os, cat, s, ts, dbt, i) ==
    IF i > Len(ts) THEN os
    ELSE join_outer(join_inner(os, cat, s, ts, dbt, i, i + 1), cat, s, ts, dbt, i + 1)

\* find_join_between(schema, tables, db_alias): its outcomes
find_join_between(cat, s, ts) ==
    UNION {IF get_db_type(cfg) = "ValueError"
           THEN {[Quiet(cfg) EXCEPT !.error = "UnsupportedDialect"]}
           ELSE get_connection(Quiet(cfg),
                    {Raised(Quiet(cfg), "cursor")}
                    \cup Returned(
                        {IF g.error = "none"
                         THEN [g EXCEPT !.result = [schema |-> s, tables |-> ts,
                                                    join_paths |-> g.result]]
                         ELSE g
                          : g \in join_outer({[NewCursor(Quiet(cfg)) EXCEPT !.result = <<>>]},
                                             cat, s, ts, cfg, 1)}))
           : cfg \in EnvTypes}

-----------------------------------------------------------------------------
(* The catalogs and the arguments of find_relationships and find_join_between *)

\* most tables a catalog of tables holds
MaxTables == 3
\* longest tables argument of find_join_between
MaxJoinTables == 3

\* the foreign keys a catalog is made of: between S.T, S.U and R.T (a table of the
\* same name in another schema), with one or two columns, under two names
FkEnds ==
    {<<<<"S">>, <<"T">>, <<"S">>, <<"U">>>>, <<<<"S">>, <<"U">>, <<"S">>, <<"T">>>>, <<<<
                                                                                         "S">>, <<
                                                                                                  "T">>, <<
                                                                                                           "S">>, <<
                                                                                                                    "T">>>>,
     <<<<"R">>, <<"T">>, <<"S">>, <<"T">>>>, <<<<"S">>, <<"T">>, <<"R">>, <<"T">>>>}

FkColumns ==
    {<<<<<<"U", "_", "I", "D">>>>, <<<<"I", "D">>>>>>,
     <<<<<<"U", "_", "I", "D">>, <<"U", "_", "N", "O">>>>, <<<<"I", "D">>, <<"N", "O">>>>>>}

FkNames == {<<"F", "K", "_", "A">>, <<"F", "K", "_", "B">>}

FkUniverse ==
    {ForeignKey(n, e[1], e[2], c[1], e[3], e[4], c[2]) :
        n \in FkNames, e \in FkEnds, c \in FkColumns}

\* the subsets of S with at most n elements
RECURSIVE SubsetsUpTo(_, _)
SubsetsUpTo(S, n) ==
    IF n = 0 THEN {{}}
    ELSE LET smaller == SubsetsUpTo(S, n - 1)
         IN  smaller \cup {x \cup {y} : x \in smaller, y \in S}

\* the tables the foreign keys F are declared on, each with the columns F names
TablesOf(F) ==
    LET ends == {<<f.from_schema, f.from_table>> : f \in F}
                \cup {<<f.to_schema, f.to_table>> : f \in F}
        cols(e) == UNION ({Range(f.from_cols) : f \in {g \in F : <<g.from_schema, g.from_table>> = e}}
                          \cup {Range(f.to_cols) : f \in {g \in F : <<g.to_schema, g.to_table>> = e}})
    IN  {Table(e[1], e[2], SetToSeq(cols(e))) : e \in ends}

\* the tables a catalog of tables is made of
TableUniverse ==
    {Table(<<"S">>, <<"C", "U", "S", "T", "O", "M", "E", "R">>, <<<<"I", "D">>, <<"R",
                                                                                  "E",
                                                                                  "G",
                                                                                  "I",
                                                                                  "O",
                                                                                  "N">>>>),
     Table(<<"S">>, <<"C", "U", "S", "T", "O", "M", "E", "R">>, <<<<"C", "U", "S", "T",
                                                                    "O", "M", "E", "R",
                                                                    "_", "I", "D">>, <<
                                                                                       "N",
                                                                                       "A",
                                                                                       "M",
                                                                                       "E">>>>),
     Table(<<"S">>, <<"C", "U", "S", "T", "O", "M", "E", "R", "_", "O", "R", "D", "E",
                      "R">>, <<<<"C", "U", "S", "T", "O", "M", "E", "R", "_", "I", "D">>, <<
                                                                                            "N",
                                                                                            "A",
                                                                                            "M",
                                                                                            "E">>>>),
     Table(<<"S">>, <<"O", "R", "D", "E", "R", "S">>, <<<<"C", "U", "S", "T", "O", "M",
                                                          "E", "R", "_", "I", "D">>, <<
                                                                                       "A",
                                                                                       "_",
                                                                                       "B",
                                                                                       "_",
                                                                                       "N",
                                                                                       "O">>>>),
     Table(<<"S">>, <<"A", "X", "B">>, <<<<"N", "O">>>>),
     Table(<<"S">>, <<"A", "_", "B">>, <<<<"A", "_", "B", "_", "N", "O">>>>),
     Table(<<"R">>, <<"C", "U", "S", "T", "O", "M", "E", "R">>, <<<<"I", "D">>>>)}

\* the catalogs: foreign keys with their tables, or tables without foreign keys
Catalogs ==
    {[fks |-> F, tables |-> TablesOf(F)] :
        F \in {G \in SubsetsUpTo(FkUniverse, MaxFks) : WellFormed("postgresql", [fks |-> G])}}
    \cup {[fks |-> {}, tables |-> X] :
            X \in {Y \in SubsetsUpTo(TableUniverse, MaxTables) :
                    \A a, b \in Y : (a.owner = b.owner /\ a.name = b.name) => a = b}}

\* the catalog behind the entry points when all of them are called
RunCatalog ==
    LET F == {ForeignKey(<<"F", "K", "_", "A">>, <<"S">>, <<"T">>, <<<<"U", "_", "I",
                                                                       "D">>>>, <<"S">>, <<
                                                                                           "U">>, <<<<
                                                                                                      "I",
                                                                                                      "D">>>>)}
    IN  [fks |-> F, tables |-> TablesOf(F)]

\* the (schema, table_name) arguments: the tables of the catalog
AskedTables(cat) == {<<x.owner, x.name>> : x \in cat.tables}

\* the lists of different elements of S with at most n elements
RECURSIVE ListsUpTo(_, _)
ListsUpTo(S, n) ==
    IF n = 0 THEN {<<>>}
    ELSE LET shorter == ListsUpTo(S, n - 1)
         IN  shorter \cup {Append(l, x) : l \in shorter, x \in S}

\* the tables arguments: lists of tables of the schema
JoinTables(cat, s) ==
    {l \in ListsUpTo({x.name : x \in {y \in cat.tables : y.owner = s}}, MaxJoinTables) :
        /\ l # <<>>
        /\ \A i, j \in DOMAIN l : i # j => l[i] # l[j]}

-----------------------------------------------------------------------------
(* The classifier alone: is_select_only applied to a text *)

InitClassify ==
    /\ pc = "start"
    /\ op = "is_select_only"
    /\ sql \in ClassifyInputs
    /\ db_type = "none"
    /\ row_limit = 0
    /\ timeout_seconds = 0
    /\ count_only = FALSE
    /\ schema = <<>>
    /\ table_list = <<>>
    /\ catalog = NoCatalog
    /\ Untouched
    /\ result = "none"
    /\ error = "none"

Classify ==
    /\ pc = "start"
    /\ op = "is_select_only"
    /\ result' = is_select_only(sql)
    /\ pc' = "done"
    /\ UNCHANGED <<args, world, error>>

NextClassify == Classify

SpecClassify == InitClassify /\ [][NextClassify]_vars

-----------------------------------------------------------------------------
(* The entry points: one call of run_query, explain_query or safe_execute *)

InitRun ==
    /\ pc = "start"
    /\ op = "none"
    /\ sql = <<>>
    /\ db_type = "none"
    /\ row_limit = 0
    /\ timeout_seconds = 0
    /\ count_only = FALSE
    /\ schema = <<>>
    /\ table_list = <<>>
    /\ catalog = RunCatalog
    /\ Untouched
    /\ result = "none"
    /\ error = "none"

\* the call ends with outcome o
Ends(o) ==
    /\ pc' = "done"
    /\ catalog' = catalog
    /\ db_type' = o.db_type
    /\ total' = o.total
    /\ cursor_log' = o.log
    /\ fetched' = o.fetched
    /\ fetched_json' = o.json
    /\ conn_opened' = o.opened
    /\ conn_closed' = o.closed
    /\ cursors' = o.cursors
    /\ fault' = o.fault
    /\ raised' = o.raised
    /\ result' = o.result
    /\ error' = o.error

RunQuery ==
    /\ pc = "start"
    /\ \E s \in StatementInputs, lim \in Caps, t \in Timeouts, c \in BOOLEAN :
        /\ op' = "run_query"
        /\ UNCHANGED <<schema, table_list>>
        /\ sql' = s
        /\ row_limit' = lim
        /\ timeout_seconds' = t
        /\ count_only' = c
        /\ \E o \in run_query(s, lim, t, c) : Ends(o)

ExplainQuery ==
    /\ pc = "start"
    /\ \E s \in StatementInputs :
        /\ op' = "explain_query"
        /\ sql' = s
        /\ UNCHANGED <<row_limit, timeout_seconds, count_only, schema, table_list>>
        /\ \E o \in explain_query(s) : Ends(o)

SafeExecute ==
    /\ pc = "start"
    /\ \E s \in StatementInputs, lim \in Caps, t \in Timeouts, dbt \in DbTypes :
        /\ op' = "safe_execute"
        /\ sql' = s
        /\ row_limit' = lim
        /\ timeout_seconds' = t
        /\ UNCHANGED <<count_only, schema, table_list>>
        /\ \E o \in safe_execute(s, lim, t, dbt) : Ends(o)

FindRelationships ==
    /\ pc = "start"
    /\ \E a \in AskedTables(catalog) :
        /\ op' = "find_relationships"
        /\ schema' = a[1]
        /\ table_list' = <<a[2]>>
        /\ UNCHANGED <<sql, row_limit, timeout_seconds, count_only>>
        /\ \E o \in find_relationships(catalog, a[1], a[2]) :
            /\ WellFormed(o.db_type, catalog)
            /\ Ends(o)

FindJoinBetween ==
    /\ pc = "start"
    /\ \E ts \in JoinTables(catalog, <<"S">>) :
        /\ op' = "find_join_between"
        /\ schema' = <<"S">>
        /\ table_list' = ts
        /\ UNCHANGED <<sql, row_limit, timeout_seconds, count_only>>
        /\ \E o \in find_join_between(catalog, <<"S">>, ts) :
            /\ WellFormed(o.db_type, catalog)
            /\ Ends(o)

NextRun ==
    RunQuery \/ ExplainQuery \/ SafeExecute \/ FindRelationships \/ FindJoinBetween

SpecRun == InitRun /\ [][NextRun]_vars

-----------------------------------------------------------------------------
(* The relationship entry points alone, against every catalog *)

InitRel ==
    /\ pc = "start"
    /\ op = "none"
    /\ sql = <<>>
    /\ db_type = "none"
    /\ row_limit = 0
    /\ timeout_seconds = 0
    /\ count_only = FALSE
    /\ schema = <<>>
    /\ table_list = <<>>
    /\ catalog \in Catalogs
    /\ Untouched
    /\ result = "none"
    /\ error = "none"

NextRel == FindRelationships \/ FindJoinBetween

SpecRel == InitRel /\ [][NextRel]_vars

-----------------------------------------------------------------------------
(* The plan analyzers alone: one analyzer applied to a plan *)

\* the sequences of at most n elements of the set `elems`
SeqsOf(elems, n) == UNION {[1..k -> elems] : k \in 0..n}

\* pieces Oracle plan lines are made of
OraclePlanAtoms ==
    {<<"T", "A", "B", "L", "E", " ", "A", "C", "C", "E", "S", "S", " ", "F", "U", "L",
       "L">>, <<"|">>, <<" ">>,
     <<"E", "M", "P", "L", "O", "Y", "E", "E", "S">>, <<"M", "E", "R", "G", "E", " ",
                                                        "J", "O", "I", "N", " ", "C",
                                                        "A", "R", "T", "E", "S", "I",
                                                        "A", "N">>,
     <<"H", "A", "S", "H", " ", "J", "O", "I", "N">>, <<"1", "0", "0", "0", "0", "1">>, <<"7">>}

\* Oracle plans with fields at the threshold, fields that share a delimiter, a table
\* scanned twice, and the plan whose only marker is a scan of EMPLOYEES
OracleScenarioPlans ==
    {<<<<"|", " ", "1", "0", "0", "0", "0", "0", " ", "|">>>>,
     <<<<"|", " ", "1", "0", "0", "0", "0", "1", " ", "|", " ", "7", " ", "|">>>>,
     <<<<"|", " ", "7", " ", "|", " ", "1", "0", "0", "0", "0", "1", " ", "|">>>>,
     <<<<"T", "A", "B", "L", "E", " ", "A", "C", "C", "E", "S", "S", " ", "F", "U",
         "L", "L", " ", "|", " ", "E", "M", "P", "L", "O", "Y", "E", "E", "S", " ",
         "|">>>>,
     <<<<"|", " ", "T", "A", "B", "L", "E", " ", "A", "C", "C", "E", "S", "S", " ",
         "F", "U", "L", "L", " ", "|", " ", "E", "M", "P", "L", "O", "Y", "E", "E",
         "S", " ", "|", " ", "1", "2", " ", "|">>, <<"|", " ", "T", "A", "B", "L", "E",
                                                     " ", "A", "C", "C", "E", "S", "S",
                                                     " ", "F", "U", "L", "L", " ", "|",
                                                     " ", "E", "M", "P", "L", "O", "Y",
                                                     "E", "E", "S", " ", "|", " ", "1",
                                                     "2", "3", "4", "5", "6", "7", " ",
                                                     "|">>>>,
     <<<<"|", "1", "|", "2", "0", "0", "0", "0", "0", "0", "|", "3", "|">>>>}

\* pieces PostgreSQL plan lines are made of
PgPlanAtoms ==
    {<<"S", "e", "q", " ", "S", "c", "a", "n", " ", "o", "n", " ">>, <<"S", "e", "q",
                                                                       " ", "S", "c",
                                                                       "a", "n">>, <<
                                                                                     "e",
                                                                                     "m",
                                                                                     "p">>, <<" ">>,
     <<"N", "e", "s", "t", "e", "d", " ", "L", "o", "o", "p">>, <<"c", "o", "s", "t",
                                                                  "=", "0", ".", "0",
                                                                  "0", ".", ".", "1",
                                                                  "0", "0", "0", "0",
                                                                  "0", ".", "0", "1">>,
     <<"c", "o", "s", "t", "=", "0", ".", "0", "0", ".", ".", "1", "0", "0", "0", "0",
       "0", ".", "0", "0">>, <<"c", "o", "s", "t", "=", "1", ".", ".", "2", ".", "3",
                               ".", "4">>}

PgScenarioPlans ==
    {<<<<"S", "e", "q", " ", "S", "c", "a", "n", " ", "o", "n", " ", "e", "m", "p",
         " ", " ", "(", "c", "o", "s", "t", "=", "0", ".", "0", "0", ".", ".", "1",
         ".", "0", "0", " ", "r", "o", "w", "s", "=", "1", ")">>>>,
     <<<<"N", "e", "s", "t", "e", "d", " ", "L", "o", "o", "p", " ", " ", "(", "c",
         "o", "s", "t", "=", "0", ".", "2", "9", ".", ".", "2", "5", "0", "0", "0",
         "0", ".", "5", "0", " ", "r", "o", "w", "s", "=", "9", ")">>,
       <<" ", " ", "-", ">", " ", " ", "S", "e", "q", " ", "S", "c", "a", "n", " ",
         "o", "n", " ", "e", "m", "p", " ", "e">>>>,
     <<<<"N", "e", "s", "t", "e", "d", " ", "L", "o", "o", "p", " ", "S", "e", "q",
         " ", "S", "c", "a", "n", " ", "o", "n", " ", "e", "m", "p", " ", "S", "e",
         "q", " ", "S", "c", "a", "n", " ", "o", "n", " ", "e", "m", "p">>>>}

\* pieces SQL Server plan lines are made of
SqlServerPlanAtoms ==
    {<<"T", "a", "b", "l", "e", " ", "S", "c", "a", "n">>, <<"C", "l", "u", "s", "t",
                                                             "e", "r", "e", "d", " ",
                                                             "I", "n", "d", "e", "x",
                                                             " ", "S", "c", "a", "n">>,
     <<"N", "e", "s", "t", "e", "d", " ", "L", "o", "o", "p", "s">>, <<"H", "a", "s",
                                                                       "h", " ", "M",
                                                                       "a", "t", "c",
                                                                       "h">>, <<"S",
                                                                                "o",
                                                                                "r",
                                                                                "t">>, <<" ">>, <<
                                                                                                  "e",
                                                                                                  "m",
                                                                                                  "p">>}

\* the rows of a MySQL EXPLAIN
MysqlPlanRows ==
    [type : {<<"A", "L", "L">>, <<"r", "e", "f">>},
     table : {<<"e", "m", "p">>},
     rows : {<<"5">>},
     Extra : {<<>>, <<"U", "s", "i", "n", "g", " ", "f", "i", "l", "e", "s", "o", "r",
                      "t">>, <<"U", "s", "i", "n", "g", " ", "t", "e", "m", "p", "o",
                               "r", "a", "r", "y">>,
              <<"U", "s", "i", "n", "g", " ", "w", "h", "e", "r", "e", ";", " ", "U",
                "s", "i", "n", "g", " ", "t", "e", "m", "p", "o", "r", "a", "r", "y",
                ";", " ", "U", "s", "i", "n", "g", " ", "f", "i", "l", "e", "s", "o",
                "r", "t">>}]

\* the plans given to the analyzer of dialect d
PlanInputs(d) ==
    IF d = "mysql" THEN SeqsOf(MysqlPlanRows, MaxPlanLines)
    ELSE LET atoms == IF d = "oracle" THEN OraclePlanAtoms
                      ELSE IF d = "postgresql" THEN PgPlanAtoms
                      ELSE SqlServerPlanAtoms
         IN  {<<t>> : t \in TextsOf(atoms, MaxPlanAtoms)}
             \cup SeqsOf(atoms, MaxPlanLines)
             \cup (IF d = "oracle" THEN OracleScenarioPlans
                   ELSE IF d = "postgresql" THEN PgScenarioPlans ELSE {})

AnalyzerOf ==
    [oracle |-> "_analyze_oracle_plan", mysql |-> "_analyze_mysql_plan",
     postgresql |-> "_analyze_pg_plan", sqlserver |-> "_analyze_sqlserver_plan"]

\* an analyzer is about to be called on the plan read from the cursor
InitAnalyze ==
    /\ pc = "start"
    /\ db_type \in Dialects
    /\ op = AnalyzerOf[db_type]
    /\ fetched \in PlanInputs(db_type)
    /\ sql = <<>>
    /\ row_limit = 0
    /\ timeout_seconds = 0
    /\ count_only = FALSE
    /\ schema = <<>>
    /\ table_list = <<>>
    /\ catalog = NoCatalog
    /\ total = -1
    /\ cursor_log = <<>>
    /\ conn_opened = 0
    /\ conn_closed = 0
    /\ cursors = 0
    /\ fault = "none"
    /\ raised = <<>>
    /\ fetched_json = "none"
    /\ result = "none"
    /\ error = "none"

AnalyzeOracle ==
    /\ pc = "start"
    /\ op = "_analyze_oracle_plan"
    /\ result' = analyze_oracle_plan(fetched)
    /\ pc' = "done"
    /\ UNCHANGED <<args, world, error>>

AnalyzeMysql ==
    /\ pc = "start"
    /\ op = "_analyze_mysql_plan"
    /\ result' = analyze_mysql_plan(fetched)
    /\ pc' = "done"
    /\ UNCHANGED <<args, world, error>>

AnalyzePg ==
    /\ pc = "start"
    /\ op = "_analyze_pg_plan"
    /\ IF analyze_pg_plan_raises(fetched)
       THEN error' = "ValueError" /\ UNCHANGED result
       ELSE result' = analyze_pg_plan(fetched) /\ UNCHANGED error
    /\ pc' = "done"
    /\ UNCHANGED <<args, world>>

AnalyzeSqlServer ==
    /\ pc = "start"
    /\ op = "_analyze_sqlserver_plan"
    /\ result' = analyze_sqlserver_plan(fetched)
    /\ pc' = "done"
    /\ UNCHANGED <<args, world, error>>

NextAnalyze == AnalyzeOracle \/ AnalyzeMysql \/ AnalyzePg \/ AnalyzeSqlServer

SpecAnalyze == InitAnalyze /\ [][NextAnalyze]_vars

-----------------------------------------------------------------------------
(* Notions the statements about the classifier use *)

\* w is the first white-space-delimited token of t
IsFirstToken(t, w) ==
    /\ w # <<>>
    /\ \A k \in 1..Len(w) : ~IsSpace(w[k])
    /\ \E i \in 0..Len(t) :
        /\ \A k \in 1..i : IsSpace(t[k])
        /\ i + Len(w) <= Len(t)
        /\ SubSeq(t, i + 1, i + Len(w)) = w
        /\ (i + Len(w) = Len(t) \/ IsSpace(t[i + Len(w) + 1]))

\* kw occurs in t with no word character on either side
Standalone(kw, t) ==
    \E i \in 1..(Len(t) - Len(kw) + 1) :
        /\ SubSeq(t, i, i + Len(kw) - 1) = kw
        /\ (i > 1 => ~IsWordChar(t[i - 1]))
        /\ (i + Len(kw) <= Len(t) => ~IsWordChar(t[i + Len(kw)]))

\* the fifteen blocked keywords of the data model
BlockedKeywords ==
    {KW_INSERT, KW_UPDATE, KW_DELETE, KW_DROP, KW_ALTER, KW_CREATE, KW_TRUNCATE,
     KW_MERGE, KW_GRANT, KW_REVOKE, KW_EXEC, KW_EXECUTE, KW_CALL, KW_BEGIN,
     KW_DECLARE}

ReadKeywords == {KW_SELECT, KW_WITH, KW_EXPLAIN}

\* the text with its comments stripped, upper-cased
Uncommented(t) == upper(strip_block_comments(strip_line_comments(t)))

ClassifyDone == pc = "done" /\ op = "is_select_only"

\* C1: is_select_only always returns a verdict; it returns true only if the first
\* token of the comment-stripped, upper-cased text is SELECT, WITH or EXPLAIN and
\* none of the 15 blocked keywords stands alone anywhere in it; a text whose first
\* token is a blocked keyword, and an empty or white-space-only text, is rejected.
C1_ClassifierVerdict ==
    ClassifyDone =>
        /\ result \in BOOLEAN
        /\ Cardinality(BlockedKeywords) = 15
        /\ (result = TRUE =>
              /\ \E w \in ReadKeywords : IsFirstToken(Uncommented(sql), w)
              /\ \A kw \in BlockedKeywords : ~Standalone(kw, Uncommented(sql)))
        /\ ((\E kw \in BlockedKeywords : IsFirstToken(upper(sql), kw)) => result = FALSE)
        /\ ((\E kw \in BlockedKeywords : IsFirstToken(Uncommented(sql), kw))
               => result = FALSE)
        /\ ((\A k \in 1..Len(sql) : IsSpace(sql[k])) => result = FALSE)

\* an accepted text from which a comment was stripped
C1_Witness ==
    /\ ClassifyDone
    /\ result = TRUE
    /\ Len(Uncommented(sql)) < Len(sql)

\* C2: every text that begins with SELECT, WITH or EXPLAIN (any letter case, leading
\* white space and comments ignored) and holds no blocked keyword as a standalone
\* token is accepted, whatever character follows the keyword.
C2_AcceptsEveryReadStatement ==
    (   /\ ClassifyDone
        /\ \E w \in ReadKeywords :
            /\ StartsWithAt(lstrip(Uncommented(sql)), 1, w)
            /\ (Len(lstrip(Uncommented(sql))) > Len(w)
                  => ~IsWordChar(lstrip(Uncommented(sql))[Len(w) + 1]))
        /\ \A kw \in BlockedKeywords : ~Standalone(kw, Uncommented(sql))
    ) => result = TRUE

-----------------------------------------------------------------------------
(* The rewriter alone: either copy of _wrap_with_limit applied to a text *)

WrapOps == {"run_query_safe._wrap_with_limit", "db_connector._wrap_with_limit"}

InitWrap ==
    /\ pc = "start"
    /\ op \in WrapOps
    /\ sql \in WrapInputs
    /\ db_type \in DbTypes
    /\ row_limit \in Caps
    /\ timeout_seconds = 0
    /\ count_only = FALSE
    /\ schema = <<>>
    /\ table_list = <<>>
    /\ catalog = NoCatalog
    /\ Untouched
    /\ result = "none"
    /\ error = "none"

WrapRunQuerySafe ==
    /\ pc = "start"
    /\ op = "run_query_safe._wrap_with_limit"
    /\ result' = rqs_wrap_with_limit(sql, row_limit, db_type)
    /\ pc' = "done"
    /\ UNCHANGED <<args, world, error>>

WrapDbConnector ==
    /\ pc = "start"
    /\ op = "db_connector._wrap_with_limit"
    /\ result' = dbc_wrap_with_limit(sql, row_limit, db_type)
    /\ pc' = "done"
    /\ UNCHANGED <<args, world, error>>

NextWrap == WrapRunQuerySafe \/ WrapDbConnector

SpecWrap == InitWrap /\ [][NextWrap]_vars

-----------------------------------------------------------------------------
(* Statements about the rewriter *)

\* p occurs in t
Contains(t, p) == \E i \in 1..(Len(t) - Len(p) + 1) : SubSeq(t, i, i + Len(p) - 1) = p

\* the bounding form the rewriter contract gives for dialect d, statement s, cap c
BoundedForm(d, s, c) ==
    IF d = "oracle" THEN Txt_SelectStarFrom \o s \o Txt_WhereRownum \o Str(c)
    ELSE IF d = "sqlserver"
    THEN Txt_SelectTop \o Str(c) \o Txt_StarFrom \o s \o Txt_AsLimited
    ELSE Txt_SelectStarFrom \o s \o Txt_AsLimitedLimit \o Str(c)

WrapDone == pc = "done" /\ op \in WrapOps /\ db_type \in Dialects

EndsInTerminator(s) == s # <<>> /\ s[Len(s)] = ";"
EndsInSpace(s) == s # <<>> /\ IsSpace(s[Len(s)])

\* the scenario: "select * from t" with cap 50
ScenarioForms ==
    (WrapDone /\ sql = SelectStarFromT /\ row_limit = 50) =>
        /\ db_type = "oracle" => Contains(result, Txt_WhereRownum50)
        /\ db_type \in {"mysql", "postgresql"} => Contains(result, Txt_Limit50)
        /\ db_type = "sqlserver" => StartsWithAt(result, 1, Txt_SelectTop50)

\* C4 as stated: for every statement text s without trailing terminator and every
\* cap c, the rewriter returns exactly the bounding form of its dialect around s.
C4_Original_ExactFormForEveryText ==
    /\ (WrapDone /\ ~EndsInTerminator(sql)) => result = BoundedForm(db_type, sql, row_limit)
    /\ ScenarioForms

\* C4 (amended): for every statement text s that ends neither in a terminator nor
\* in white space, and every cap c, the rewriter returns exactly the bounding form
\* of its dialect around s; "select * from t" with cap 50 gives the scenario's
\* outputs.
C4_ExactFormForStrippedText ==
    /\ (WrapDone /\ ~EndsInTerminator(sql) /\ ~EndsInSpace(sql))
           => result = BoundedForm(db_type, sql, row_limit)
    /\ ScenarioForms

\* the scenario on SQL Server, through the db_connector copy
C4_Witness ==
    /\ WrapDone
    /\ op = "db_connector._wrap_with_limit"
    /\ db_type = "sqlserver"
    /\ sql = SelectStarFromT
    /\ row_limit = 50
    /\ StartsWithAt(result, 1, Txt_SelectTop50)

-----------------------------------------------------------------------------
(* Notions the statements about the entry points use *)

EntryPoints == {"run_query", "explain_query", "safe_execute"}

\* a call of an entry point has ended
RunDone == pc = "done" /\ op \in EntryPoints

\* nothing of the call reached the database
NothingReached == conn_opened = 0 /\ cursors = 0 /\ cursor_log = <<>>

\* the text an entry point hands to the classifier: run_query strips surrounding
\* white space and trailing terminators first, the other two classify the text given
ClassifiedText ==
    IF op = "run_query" THEN rstrip_semicolon(strip(sql)) ELSE sql

\* the text an entry point puts inside the bounding form
BoundedText == rstrip_semicolon(rstrip(ClassifiedText))

IsPrefix(p, t) == Len(p) <= Len(t) /\ SubSeq(t, 1, Len(p)) = p

\* a statement in one of the three bounding forms
IsBounded(q) == StartsWithAt(q, 1, Txt_SelectStarFrom) \/ StartsWithAt(q, 1, Txt_SelectTop)

\* the count form of statement s under dialect d
CountForm(d, s) ==
    Txt_SelectCountFrom \o s
    \o (IF d = "oracle" THEN Txt_CloseParen
        ELSE IF d = "sqlserver" THEN Txt_AsCountWrapper
        ELSE Txt_CloseParen \o <<" ">> \o Txt_CountWrapper)

\* q sets `name` to the value ms, between the quotes given
IsDirective(q, name, quote, ms) ==
    LET head == name \o <<" ", "=", " ">> \o quote
        value == SubSeq(q, Len(head) + 1, Len(q) - Len(quote))
    IN  /\ StartsWithAt(q, 1, head)
        /\ EndsWith(q, quote)
        /\ IsIntLiteral(value)
        /\ ParseInt(value) = ms

\* q is the timeout directive of dialect d for a timeout of t seconds
IsTimeoutDirective(d, q, t) ==
    IF d = "mysql" THEN IsDirective(q, Txt_SetMaxExecutionTime, <<>>, t * 1000)
    ELSE IF d = "postgresql" THEN IsDirective(q, Txt_SetStatementTimeout, <<"'">>, t * 1000)
    ELSE FALSE

\* q sets a timeout
SetsTimeout(q) ==
    StartsWithAt(q, 1, Txt_SetMaxExecutionTime) \/ StartsWithAt(q, 1, Txt_SetStatementTimeout)

\* q is the main query of the call: the count form in count-only mode, the bounded
\* form otherwise
IsMainQuery(q) ==
    IF op = "run_query" /\ count_only THEN q = CountForm(db_type, ClassifiedText)
    ELSE q = BoundedForm(db_type, BoundedText, row_limit)

-----------------------------------------------------------------------------
(* Statements about the entry points *)

C5_EngineReturnsMinOfRowsAndCap ==
    (   /\ RunDone
        /\ op \in {"run_query", "safe_execute"}
        /\ ~count_only
        /\ db_type \in Dialects
        /\ row_limit >= 0
        /\ is_select_only(ClassifiedText)
        /\ total >= 0
        /\ fault \in {"none", "engine"}
    ) => (error = "none" /\ Len(fetched) = Min(total, row_limit))

\* C6: asked to bound a statement that does not classify as read-only, the
\* rewriter fails with the not-read-only error and produces no bounded SQL.
C6_RewriterRequiresReadOnly ==
    (pc = "done" /\ op \in WrapOps /\ ~is_select_only(sql))
        => (error = "NotReadOnly" /\ ~IsBounded(result))

\* C7: in count-only mode run_query sends only the timeout directive of the dialect
\* (if it has one) and then the count form of the statement, without alias for
\* oracle and with alias count_wrapper otherwise; no bounded form is sent; the
\* result has exactly one row, row_count 1, total_rows equal to the count read from
\* the cursor, and truncated false.
C7_CountOnlySendsCountForm ==
    (RunDone /\ op = "run_query" /\ count_only /\ db_type \in Dialects) =>
        LET main == CountForm(db_type, ClassifiedText)
            n == IF db_type \in {"mysql", "postgresql"} THEN 2 ELSE 1
        IN  /\ Len(cursor_log) <= n
            /\ (n = 2 /\ cursor_log # <<>>)
                  => IsTimeoutDirective(db_type, cursor_log[1], timeout_seconds)
            /\ (Len(cursor_log) = n) => cursor_log[n] = main
            /\ (db_type = "oracle" /\ cursor_log # <<>>)
                  => (EndsWith(cursor_log[1], Txt_CloseParen)
                      /\ ~Contains(cursor_log[1], Txt_CountWrapper))
            /\ (db_type # "oracle" /\ Len(cursor_log) = n)
                  => EndsWith(cursor_log[n], Txt_CountWrapper)
            /\ \A i \in 1..Len(cursor_log) : ~IsBounded(cursor_log[i])
            /\ (error = "none") =>
                  /\ Len(cursor_log) = n
                  /\ Len(fetched) = 1
                  /\ Len(result.rows) = 1
                  /\ result.rows[1] = <<fetched[1]>>
                  /\ result.row_count = 1
                  /\ result.total_rows = fetched[1]
                  /\ result.total_rows = total
                  /\ result.truncated = FALSE

\* a count of two rows under oracle, and the count form sent alone
C7_Witness ==
    /\ RunDone
    /\ op = "run_query"
    /\ count_only
    /\ db_type = "oracle"
    /\ error = "none"
    /\ Len(cursor_log) = 1
    /\ result.total_rows = 2

\* C8: in every run of run_query (count-only or not) and of safe_execute the timeout
\* directive precedes the main query: under mysql exactly one SET SESSION
\* MAX_EXECUTION_TIME and under postgresql exactly one SET statement_timeout, with
\* the value timeout_seconds * 1000, is sent before the bounded or count query;
\* under oracle and sqlserver the bounded or count query is the first statement.
C8_TimeoutDirectivePrecedesMainQuery ==
    (RunDone /\ op \in {"run_query", "safe_execute"} /\ db_type \in Dialects
       /\ cursor_log # <<>>) =>
        IF db_type \in {"mysql", "postgresql"}
        THEN /\ IsTimeoutDirective(db_type, cursor_log[1], timeout_seconds)
             /\ Len(cursor_log) <= 2
             /\ Len(cursor_log) = 2 =>
                  (IsMainQuery(cursor_log[2]) /\ ~SetsTimeout(cursor_log[2]))
             /\ (error = "none") => Len(cursor_log) = 2
        ELSE /\ Len(cursor_log) = 1
             /\ IsMainQuery(cursor_log[1])
             /\ ~SetsTimeout(cursor_log[1])

\* run_query under postgresql with a timeout of two seconds: the directive, then
\* the bounded query
C8_Witness ==
    /\ RunDone
    /\ op = "run_query"
    /\ ~count_only
    /\ db_type = "postgresql"
    /\ timeout_seconds = 2
    /\ error = "none"
    /\ Len(cursor_log) = 2
    /\ IsBounded(cursor_log[2])

\* C9: for every non-count result of run_query, row_count equals the number of rows
\* fetched and truncated equals (row_count >= row cap).
C9_RowCountAndTruncated ==
    (RunDone /\ op = "run_query" /\ ~count_only /\ error = "none") =>
        /\ result.row_count = Len(fetched)
        /\ result.row_count = Len(result.rows)
        /\ result.truncated = (result.row_count >= row_limit)
        /\ result.row_limit = row_limit

\* fewer rows than the cap: three rows under a cap of fifty
C9_Witness ==
    /\ RunDone
    /\ op = "run_query"
    /\ ~count_only
    /\ error = "none"
    /\ row_limit = 50
    /\ result.row_count = 3
    /\ result.truncated = FALSE

\* C10 as stated: in every result of a non-count run, for every row cap the caller
\* may pass, truncated is true if and only if row_count equals the cap.
C10_Original_TruncatedIffAtCap ==
    (RunDone /\ op = "run_query" /\ ~count_only /\ error = "none") =>
        (result.truncated <=> result.row_count = row_limit)

\* C10 (amended): in every result of a non-count run, under a cap that is not
\* negative truncated is true if and only if row_count equals the cap; under a
\* negative cap no rows come back and truncated is true.
C10_TruncatedIffAtCap ==
    (RunDone /\ op = "run_query" /\ ~count_only /\ error = "none") =>
        /\ (row_limit >= 0) => (result.truncated <=> result.row_count = row_limit)
        /\ (row_limit < 0) => (result.truncated /\ result.row_count = 0)

\* as many rows as the cap: two rows of three under a cap of two
C10_Witness ==
    /\ RunDone
    /\ op = "run_query"
    /\ ~count_only
    /\ error = "none"
    /\ row_limit = 2
    /\ total = 3
    /\ result.row_count = 2
    /\ result.truncated

-----------------------------------------------------------------------------
(* Statements about the plan analyzers *)

Analyzers ==
    {"_analyze_oracle_plan", "_analyze_mysql_plan", "_analyze_pg_plan",
     "_analyze_sqlserver_plan"}

\* an analyzer has returned
AnalyzeDone == pc = "done" /\ op \in Analyzers /\ error = "none"

\* the kinds of record a rule emits
RuleKinds ==
    {"FULL_TABLE_SCAN", "CARTESIAN_PRODUCT", "HASH_JOIN", "HIGH_COST", "FILESORT",
     "TEMP_TABLE", "NESTED_LOOP_HIGH_COST", "NESTED_LOOPS", "SORT_OPERATION"}

\* the words the rules of a dialect look for in the plan text
MarkersOf(d) ==
    IF d = "oracle" THEN {<<"T", "A", "B", "L", "E", " ", "A", "C", "C", "E", "S", "S",
                            " ", "F", "U", "L", "L">>, <<"M", "E", "R", "G", "E", " ",
                                                         "J", "O", "I", "N", " ", "C",
                                                         "A", "R", "T", "E", "S", "I",
                                                         "A", "N">>,
                          <<"H", "A", "S", "H", " ", "J", "O", "I", "N">>, <<"|">>}
    ELSE IF d = "postgresql" THEN {<<"S", "e", "q", " ", "S", "c", "a", "n">>, <<"N",
                                                                                 "e",
                                                                                 "s",
                                                                                 "t",
                                                                                 "e",
                                                                                 "d",
                                                                                 " ",
                                                                                 "L",
                                                                                 "o",
                                                                                 "o",
                                                                                 "p">>}
    ELSE {<<"T", "a", "b", "l", "e", " ", "S", "c", "a", "n">>, <<"C", "l", "u", "s",
                                                                  "t", "e", "r", "e",
                                                                  "d", " ", "I", "n",
                                                                  "d", "e", "x", " ",
                                                                  "S", "c", "a", "n">>,
          <<"N", "e", "s", "t", "e", "d", " ", "L", "o", "o", "p", "s">>, <<"H", "a",
                                                                            "s", "h",
                                                                            " ", "M",
                                                                            "a", "t",
                                                                            "c", "h">>, <<
                                                                                          "S",
                                                                                          "o",
                                                                                          "r",
                                                                                          "t">>}

\* the words whose presence alone makes a rule of the dialect fire
SureMarkersOf(d) ==
    IF d = "oracle" THEN {<<"M", "E", "R", "G", "E", " ", "J", "O", "I", "N", " ", "C",
                            "A", "R", "T", "E", "S", "I", "A", "N">>, <<"H", "A", "S",
                                                                        "H", " ", "J",
                                                                        "O", "I", "N">>}
    ELSE IF d = "postgresql" THEN {}
    ELSE {<<"T", "a", "b", "l", "e", " ", "S", "c", "a", "n">>, <<"C", "l", "u", "s",
                                                                  "t", "e", "r", "e",
                                                                  "d", " ", "I", "n",
                                                                  "d", "e", "x", " ",
                                                                  "S", "c", "a", "n">>,
          <<"N", "e", "s", "t", "e", "d", " ", "L", "o", "o", "p", "s">>, <<"H", "a",
                                                                            "s", "h",
                                                                            " ", "M",
                                                                            "a", "t",
                                                                            "c", "h">>, <<
                                                                                          "S",
                                                                                          "o",
                                                                                          "r",
                                                                                          "t">>}

\* the plan given holds none of the dialect's markers
NoMarker ==
    IF db_type = "mysql"
    THEN \A k \in 1..Len(fetched) :
            /\ fetched[k].type # <<"A", "L", "L">>
            /\ ~Contains(fetched[k].Extra, <<"U", "s", "i", "n", "g", " ", "f", "i",
                                             "l", "e", "s", "o", "r", "t">>)
            /\ ~Contains(fetched[k].Extra, <<"U", "s", "i", "n", "g", " ", "t", "e",
                                             "m", "p", "o", "r", "a", "r", "y">>)
    ELSE \A m \in MarkersOf(db_type) : ~Contains(join_lines(fetched), m)

\* the plan given holds a marker whose presence alone makes a rule fire
SureMarker ==
    IF db_type = "mysql"
    THEN \E k \in 1..Len(fetched) :
            \/ fetched[k].type = <<"A", "L", "L">>
            \/ Contains(fetched[k].Extra, <<"U", "s", "i", "n", "g", " ", "f", "i",
                                            "l", "e", "s", "o", "r", "t">>)
            \/ Contains(fetched[k].Extra, <<"U", "s", "i", "n", "g", " ", "t", "e",
                                            "m", "p", "o", "r", "a", "r", "y">>)
    ELSE \E m \in SureMarkersOf(db_type) : Contains(join_lines(fetched), m)

-----------------------------------------------------------------------------
(* Statements about the plan retrievals *)

Txt_ShowplanOn == <<"S", "E", "T", " ", "S", "H", "O", "W", "P", "L", "A", "N", "_",
                    "T", "E", "X", "T", " ", "O", "N">>
Txt_ShowplanOff == <<"S", "E", "T", " ", "S", "H", "O", "W", "P", "L", "A", "N", "_",
                     "T", "E", "X", "T", " ", "O", "F", "F">>

\* explain_query has ended under dialect d, after it reached the cursor
ExplainDone(d) ==
    RunDone /\ op = "explain_query" /\ db_type = d /\ cursor_log # <<>>

\* positions of statement q in the statements sent
SentAt(q) == {k \in 1..Len(cursor_log) : cursor_log[k] = q}

\* SET SHOWPLAN_TEXT ON was executed and did not fail
ShowplanIsOn ==
    /\ cursor_log[1] = Txt_ShowplanOn
    /\ (raised = <<>> \/ raised[1] # "showplan_on")

\* turning show-plan mode off is the last statement sent, and it is sent once
ShowplanTurnedOff ==
    /\ SentAt(Txt_ShowplanOff) = {Len(cursor_log)}
    /\ SentAt(Txt_ShowplanOn) = {1}

-----------------------------------------------------------------------------
(* Statements about the connection of a call *)

\* the entry points that open their connection with get_connection
ScopedCalls == {"run_query", "explain_query", "find_relationships", "find_join_between"}

\* a call of one of them has ended
ScopedDone == pc = "done" /\ op \in ScopedCalls

\* C13: a call of run_query, explain_query, find_relationships or find_join_between
\* opens at most one connection, and when it has returned or raised, every
\* connection it opened has been closed exactly once.
C13_ConnectionClosedOnEveryExit ==
    ScopedDone => (conn_opened \in {0, 1} /\ conn_closed = conn_opened)

\* find_join_between raising a driver error while its connection is open
C13_Witness ==
    /\ ScopedDone
    /\ op = "find_join_between"
    /\ error = "DriverError"
    /\ fault = "fetch_columns"
    /\ cursor_log # <<>>
    /\ conn_opened = 1
    /\ conn_closed = 1

-----------------------------------------------------------------------------
(* Statements about the Oracle plan retrieval *)

\* the call: what _oracle_explain returns for the plan lines it has read
OraclePlanResult ==
    [db_type |-> "oracle", plan |-> fetched, issues |-> analyze_oracle_plan(fetched)]

\* the driver calls of the cleanup, and those before it
CleanupCalls == {"cleanup", "commit"}
RetrievalCalls == {"explain_plan", "display", "fetch_plan"}

\* C14: in the Oracle explain, a failure of the DELETE or of the commit that follows
\* it is swallowed: the call returns the plan lines read and the issue list derived
\* from them, the same value as when the cleanup succeeds; a failure of the EXPLAIN
\* PLAN statement or of the read-back of the plan is raised to the caller.
C14_CleanupFailureSwallowed ==
    (ExplainDone("oracle") /\ fault \notin {"connect", "cursor"}) =>
        /\ (fault \in CleanupCalls \cup {"none"}) =>
              /\ error = "none"
              /\ result = OraclePlanResult
              /\ Len(raised) <= 1
        /\ (fault \in RetrievalCalls) =>
              /\ error = "DriverError"
              /\ result = "none"
              /\ raised = <<fault>>

\* the commit of the cleanup fails and the plan with its full scan is returned
C14_Witness ==
    /\ ExplainDone("oracle")
    /\ raised = <<"commit">>
    /\ error = "none"
    /\ result = OraclePlanResult
    /\ result.issues[1].type = "FULL_TABLE_SCAN"

-----------------------------------------------------------------------------
(* Statements about the dialect tag *)

\* the entry points that take a dialect: four through get_db_type, safe_execute
\* through its db_type argument
DialectCalls == ScopedCalls \cup {"safe_execute"}

\* C15: a dialect tag outside oracle, mysql, postgresql, sqlserver is fatal to the
\* call and detected before any I/O: run_query, explain_query, find_relationships,
\* find_join_between and safe_execute end with an error, open no connection and send
\* no statement to a cursor when the tag is unsupported.
C15_UnsupportedDialectBeforeIO ==
    (pc = "done" /\ op \in DialectCalls /\ db_type \notin Dialects) =>
        /\ error # "none"
        /\ conn_opened = 0
        /\ cursor_log = <<>>

-----------------------------------------------------------------------------
(* Statements about the foreign-key edges *)

\* find_relationships has returned its result for a dialect with a resolver
RelDone ==
    /\ pc = "done" /\ op = "find_relationships"
    /\ error = "none" /\ db_type \in FkDialects

\* the elements of a list
Elems(l) == {l[i] : i \in DOMAIN l}

\* the constraint of an edge, with its two sides and the direction
EdgeSides(e) ==
    <<e.constraint_name, e.direction, <<e.from_schema, e.from_table>>,
      <<e.to_schema, e.to_table>>>>

\* the constraints of the catalog with the asked table on the referencing side, and
\* those with it on the referenced side
DeclaredFrom(cat, s, t) == {f \in cat.fks : f.from_schema = s /\ f.from_table = t}
DeclaredTo(cat, s, t) == {f \in cat.fks : f.to_schema = s /\ f.to_table = t}

\* the sides and direction the edges of the asked table have by the catalog
DeclaredSides(cat, s, t) ==
    {<<f.name, "OUTGOING", <<f.from_schema, f.from_table>>, <<f.to_schema, f.to_table>>>>
        : f \in DeclaredFrom(cat, s, t)}
    \cup
    {<<f.name, "INCOMING", <<f.from_schema, f.from_table>>, <<f.to_schema, f.to_table>>>>
        : f \in DeclaredTo(cat, s, t)}

\* C16: for oracle, mysql and postgresql and every catalog, an edge of a constraint is
\* returned as OUTGOING exactly when the asked (schema, table) is its referencing side
\* and as INCOMING exactly when it is its referenced side, also when another schema
\* has a table of the same name; a self-referencing constraint of the asked table is
\* returned in both directions.
C16_DirectionRelativeToAskedTable ==
    RelDone =>
        {EdgeSides(e) : e \in Elems(result.foreign_keys)}
            = DeclaredSides(catalog, schema, table_list[1])

\* the edges of constraint f in direction dir, one per column position
EdgesOf(f, dir) ==
    [i \in DOMAIN f.from_cols |->
        Edge(f.name, dir, f.from_schema, f.from_table, f.from_cols[i],
             f.to_schema, f.to_table, f.to_cols[i])]

\* the list r stands in the list l from position p on
IsRun(l, p, r) ==
    /\ p + Len(r) - 1 <= Len(l)
    /\ \A i \in DOMAIN r : l[p + i - 1] = r[i]

\* the places of the list l that hold an edge of constraint f in direction dir
PlacesOf(l, f, dir) ==
    {j \in DOMAIN l :
        EdgeSides(l[j]) = <<f.name, dir, <<f.from_schema, f.from_table>>,
                            <<f.to_schema, f.to_table>>>>}

\* constraint f has exactly its k edges in l, side by side in position order
Grouped(l, f, dir) ==
    /\ Cardinality(PlacesOf(l, f, dir)) = Len(f.from_cols)
    /\ \E p \in DOMAIN l : IsRun(l, p, EdgesOf(f, dir))

\* the two directed catalog statements of the dialects
DirectedQueries ==
    {<<Txt_OracleFkFrom, Txt_OracleFkTo>>, <<Txt_MysqlFkFrom, Txt_MysqlFkTo>>}

\* C17: for oracle, mysql and postgresql the edges come from two directed catalog
\* queries, the referencing side first and the referenced side second, each ordered
\* by constraint name and column position: a constraint of k columns gives exactly k
\* edges, next to each other in the result, in position order, each pairing the
\* referencing column with the referenced column of the same position.
C17_KeyColumnsGroupedAndOrdered ==
    RelDone =>
        /\ Len(cursor_log) >= 2
        /\ SubSeq(cursor_log, 1, 2) \in DirectedQueries
        /\ \A f \in DeclaredFrom(catalog, schema, table_list[1]) :
                Grouped(result.foreign_keys, f, "OUTGOING")
        /\ \A f \in DeclaredTo(catalog, schema, table_list[1]) :
                Grouped(result.foreign_keys, f, "INCOMING")

-----------------------------------------------------------------------------
(* Statements about the naming hints *)

\* the suffix roots ID, CODE, KEY, NO, NUM of the column c that leave a prefix
RootsOf(c) ==
    {[prefix |-> SubSeq(c, 1, Len(c) - Len(HintSuffixes[k])),
      root |-> Tail(HintSuffixes[k])] :
        k \in {j \in DOMAIN HintSuffixes :
                /\ EndsWith(c, HintSuffixes[j])
                /\ Len(c) > Len(HintSuffixes[j])}}

\* the names a column of the table m may have to answer the column c with root r
AnswerNames(c, m, r) == {r, m \o <<"_">> \o r, c}

\* the pairs (column c of the asked table, table m of the schema) that the naming
\* convention relates
ConventionPairs(cat, s, t) ==
    UNION {{<<c, m.name>> :
                m \in {x \in cat.tables :
                        /\ x.owner = s
                        /\ \E p \in RootsOf(c) :
                              /\ text_in(p.prefix, x.name)
                              /\ Elems(x.cols) \cap AnswerNames(c, x.name, p.root) # {}}}
           : c \in Elems(ColumnsOf(cat, s, t))}

\* C18: naming hints are produced for Oracle only, the other dialects return an empty
\* list. On Oracle there is a hint exactly for each pair of a column c of the asked
\* table that ends in _ID, _CODE, _KEY, _NO or _NUM after a non-empty prefix and a
\* table m of the schema whose name equals or contains the prefix, such that m has a
\* column named the suffix root, m_root, or c; every hint is a NAMING_CONVENTION of
\* confidence MEDIUM from column c of the asked table, in a list of its own.
C18_NamingHintsExactlyConventionPairs ==
    RelDone =>
        /\ (db_type # "oracle") => (result.naming_hints = <<>>)
        /\ (db_type = "oracle") =>
              /\ \A h \in Elems(result.naming_hints) :
                    /\ h.type = "NAMING_CONVENTION"
                    /\ h.confidence = "MEDIUM"
                    /\ h.from_table = table_list[1]
                    /\ h.to_schema = schema
              /\ {<<h.from_column, h.to_table>> : h \in Elems(result.naming_hints)}
                    = ConventionPairs(catalog, schema, table_list[1])

-----------------------------------------------------------------------------
(* Statements about the join candidates *)

\* find_join_between has returned its result
JoinDone == pc = "done" /\ op = "find_join_between" /\ error = "none"

\* the pairs of indices i < j of the list ts
IndexPairs(ts) == {p \in (DOMAIN ts) \X (DOMAIN ts) : p[1] < p[2]}

\* the pairs of indices that hold the same two tables as the pair p
SamePairs(ts, p) == {q \in IndexPairs(ts) : ts[q[1]] = ts[p[1]] /\ ts[q[2]] = ts[p[2]]}

\* the text `t1.c1 = t2.c2`
JoinText(t1, c1, t2, c2) == t1 \o <<".">> \o c1 \o <<" ", "=", " ">> \o t2 \o <<".">> \o c2

\* the column names present in both tables
SharedColumns(cat, s, t1, t2) ==
    Elems(ColumnsOf(cat, s, t1)) \cap Elems(ColumnsOf(cat, s, t2))

\* the COMMON_COLUMN candidate of the pair (t1, t2) for the shared column c
CommonCandidate(t1, t2, c) ==
    [type |-> "COMMON_COLUMN", join |-> JoinText(t1, c, t2, c),
     confidence |-> IF \E x \in {<<"_", "I", "D">>, <<"_", "K", "E", "Y">>,
                                 <<"_", "C", "O", "D", "E">>} : EndsWith(c, x)
                    THEN "HIGH" ELSE "MEDIUM",
     table1 |-> t1, table2 |-> t2]

\* the places of the list l that hold x
Places(l, x) == {k \in DOMAIN l : l[k] = x}

\* C19: find_join_between examines every pair of the given tables once, by indices
\* i < j, and for each pair returns exactly one COMMON_COLUMN candidate for each column
\* name that both tables have, with the predicate `table1.c = table2.c` and the
\* confidence HIGH when the name ends in _ID, _KEY or _CODE and MEDIUM otherwise.
C19_OneCommonColumnPerSharedName ==
    JoinDone =>
        /\ \A k \in DOMAIN result.join_paths :
              (result.join_paths[k].type = "COMMON_COLUMN") =>
                  \E p \in IndexPairs(table_list) :
                      \E c \in SharedColumns(catalog, schema, table_list[p[1]],
                                             table_list[p[2]]) :
                          result.join_paths[k]
                              = CommonCandidate(table_list[p[1]], table_list[p[2]], c)
        /\ \A p \in IndexPairs(table_list) :
              \A c \in SharedColumns(catalog, schema, table_list[p[1]], table_list[p[2]]) :
                  Cardinality(Places(result.join_paths,
                                     CommonCandidate(table_list[p[1]], table_list[p[2]], c)))
                      = Cardinality(SamePairs(table_list, p))

\* three tables are asked and both confidences occur among the shared columns
C19_Witness ==
    /\ JoinDone
    /\ Len(table_list) = 3
    /\ \E k, m \in DOMAIN result.join_paths :
          /\ result.join_paths[k].type = "COMMON_COLUMN"
          /\ result.join_paths[k].confidence = "HIGH"
          /\ result.join_paths[m].type = "COMMON_COLUMN"
          /\ result.join_paths[m].confidence = "MEDIUM"

\* the suffix roots ID, CODE, KEY that the column c2 ends in after an underscore
KeyRootsOf(c2) ==
    {r \in {<<"I", "D">>, <<"C", "O", "D", "E">>, <<"K", "E", "Y">>} :
        EndsWith(c2, <<"_">> \o r)}

\* the NAMING_CONVENTION candidate of the pair (t1, t2) for the column c2 of t2 with
\* root r, the root taken as the column of t1 when t1 has it
NamingCandidate(cols1, t1, t2, c2, r) ==
    [type |-> "NAMING_CONVENTION",
     join |-> JoinText(t1, IF r \in cols1 THEN r ELSE c2, t2, c2),
     confidence |-> "MEDIUM", table1 |-> t1, table2 |-> t2]

\* the tables CUSTOMER {ID, REGION} and CUSTOMER_ORDER {CUSTOMER_ID, NAME}
CustomerFixture ==
    {Table(<<"S">>, <<"C", "U", "S", "T", "O", "M", "E", "R">>,
           <<<<"I", "D">>, <<"R", "E", "G", "I", "O", "N">>>>),
     Table(<<"S">>, <<"C", "U", "S", "T", "O", "M", "E", "R", "_", "O", "R", "D", "E", "R">>,
           <<<<"C", "U", "S", "T", "O", "M", "E", "R", "_", "I", "D">>,
             <<"N", "A", "M", "E">>>>)}

\* find_join_between has returned for CUSTOMER and CUSTOMER_ORDER of the fixture
FixtureDone ==
    /\ JoinDone
    /\ catalog.tables = CustomerFixture
    /\ schema = <<"S">>
    /\ table_list = <<<<"C", "U", "S", "T", "O", "M", "E", "R">>,
                      <<"C", "U", "S", "T", "O", "M", "E", "R", "_", "O", "R", "D", "E", "R">>>>

\* CUSTOMER.ID = CUSTOMER_ORDER.CUSTOMER_ID
Txt_FixtureJoin ==
    <<"C", "U", "S", "T", "O", "M", "E", "R", ".", "I", "D", " ", "=", " ",
      "C", "U", "S", "T", "O", "M", "E", "R", "_", "O", "R", "D", "E", "R", ".",
      "C", "U", "S", "T", "O", "M", "E", "R", "_", "I", "D">>

\* C20: for a pair (table1, table2), every column c2 of table2 that starts with the
\* name of table1 and ends in _ID, _CODE or _KEY gives a NAMING_CONVENTION candidate of
\* confidence MEDIUM when the stripped suffix ID, CODE or KEY, or c2 itself, is a
\* column of table1, the stripped suffix being taken as table1's column when both
\* are; for CUSTOMER {ID, REGION} and CUSTOMER_ORDER {CUSTOMER_ID, NAME} the result
\* has `CUSTOMER.ID = CUSTOMER_ORDER.CUSTOMER_ID` with confidence MEDIUM.
C20_NamingCandidateFromSecondTable ==
    JoinDone =>
        /\ \A p \in IndexPairs(table_list) :
              LET t1 == table_list[p[1]]
                  t2 == table_list[p[2]]
                  cols1 == Elems(ColumnsOf(catalog, schema, t1))
              IN  \A c2 \in Elems(ColumnsOf(catalog, schema, t2)) :
                      \A r \in KeyRootsOf(c2) :
                          (/\ StartsWithAt(c2, 1, t1)
                           /\ (r \in cols1 \/ c2 \in cols1)) =>
                              Places(result.join_paths,
                                     NamingCandidate(cols1, t1, t2, c2, r)) # {}
        /\ FixtureDone =>
              \E k \in DOMAIN result.join_paths :
                  /\ result.join_paths[k].type = "NAMING_CONVENTION"
                  /\ result.join_paths[k].join = Txt_FixtureJoin
                  /\ result.join_paths[k].confidence = "MEDIUM"

\* the fixture has been asked and the candidate is the only path returned
C20_Witness ==
    /\ FixtureDone
    /\ Len(result.join_paths) = 1
    /\ result.join_paths[1].join = Txt_FixtureJoin

\* the candidates of the pair (t1, t2) in the list l, without the table fields
CandidatesOf(l, t1, t2) ==
    LET ofPair(x) == x.table1 = t1 /\ x.table2 = t2
        sub == SelectSeq(l, ofPair)
    IN  [k \in DOMAIN sub |->
            [type |-> sub[k].type, join |-> sub[k].join, confidence |-> sub[k].confidence]]

\* the two columns that the candidate x of the pair (t1, t2) equates
ColumnsEquated(x, t1, t2, cols) ==
    {pr \in cols \X cols : x.join = JoinText(t1, pr[1], t2, pr[2])}

\* the candidate x of the pair (t1, t2) with the sides of its predicate exchanged
Exchanged(x, t1, t2, cols) ==
    LET pr == CHOOSE q \in ColumnsEquated(x, t1, t2, cols) : TRUE
    IN  [type |-> x.type, join |-> JoinText(t2, pr[2], t1, pr[1]),
         confidence |-> x.confidence]

\* the lists l and m hold the same elements, each as many times
SameCollection(l, m) ==
    /\ Len(l) = Len(m)
    /\ \A k \in DOMAIN l : Cardinality(Places(l, l[k])) = Cardinality(Places(m, l[k]))

\* C21: the join-path discovery is symmetric: the candidates computed for (A, B) and
\* those computed for (B, A) are as many, and each candidate for (A, B) answers to one
\* for (B, A) of the same kind and confidence that equates the same two columns with
\* the sides of the predicate exchanged.
C21_JoinPathsSymmetric ==
    JoinDone =>
        \A p \in IndexPairs(table_list) :
            LET A == table_list[p[1]]
                B == table_list[p[2]]
                cols == Elems(ColumnsOf(catalog, schema, A))
                            \cup Elems(ColumnsOf(catalog, schema, B))
                forAB == CandidatesOf(result.join_paths, A, B)
            IN  /\ \A k \in DOMAIN forAB :
                        Cardinality(ColumnsEquated(forAB[k], A, B, cols)) = 1
                /\ \A rows \in join_column_rows(catalog, schema, B, A) :
                        \A forBA \in join_paths(rows, B, A) :
                            SameCollection(
                                [k \in DOMAIN forAB |-> Exchanged(forAB[k], A, B, cols)],
                                forBA)

\* CUSTOMER_ORDER and CUSTOMER of the fixture are asked in this order, and the
\* candidate comes from the loop over the columns of the first table
C21_Witness ==
    /\ JoinDone
    /\ catalog.tables = CustomerFixture
    /\ table_list = <<<<"C", "U", "S", "T", "O", "M", "E", "R", "_", "O", "R", "D", "E", "R">>,
                      <<"C", "U", "S", "T", "O", "M", "E", "R">>>>
    /\ Len(result.join_paths) = 1
    /\ result.join_paths[1].type = "NAMING_CONVENTION"
    /\ result.join_paths[1].join =
          JoinText(table_list[1], <<"C", "U", "S", "T", "O", "M", "E", "R", "_", "I", "D">>,
                   table_list[2], <<"I", "D">>)

-----------------------------------------------------------------------------
(* Statements about the records of the plan analyzers *)

\* the Oracle or the PostgreSQL analyzer has returned
ScanAnalyzeDone ==
    AnalyzeDone /\ op \in {"_analyze_oracle_plan", "_analyze_pg_plan"}

\* the places of the issue list l that hold a record of the kind type
KindPlaces(l, type) == {k \in DOMAIN l : l[k].type = type}

\* TABLE ACCESS FULL | EMPLOYEES |
Txt_ScanOfEmployees ==
    <<"T", "A", "B", "L", "E", " ", "A", "C", "C", "E", "S", "S", " ", "F", "U", "L", "L",
      " ", "|", " ", "E", "M", "P", "L", "O", "Y", "E", "E", "S", " ", "|">>

\* C22: the Oracle and the PostgreSQL analyzer emit one WARNING FULL_TABLE_SCAN record
\* for each distinct table name extracted after a scan token, so that a table scanned
\* several times in the plan is reported once; the Oracle plan whose only marker is
\* `TABLE ACCESS FULL | EMPLOYEES |` gives exactly one FULL_TABLE_SCAN WARNING that
\* names EMPLOYEES and no OK record.
C22_OneScanRecordPerTable ==
    ScanAnalyzeDone =>
        /\ \A k \in KindPlaces(result, "FULL_TABLE_SCAN") :
              /\ result[k].severity = "WARNING"
              /\ Len(result[k].message) = 1
        /\ \A k, m \in KindPlaces(result, "FULL_TABLE_SCAN") :
              (result[k].message = result[m].message) => (k = m)
        /\ (op = "_analyze_oracle_plan" /\ fetched = <<Txt_ScanOfEmployees>>) =>
              result = <<[severity |-> "WARNING", type |-> "FULL_TABLE_SCAN",
                          message |-> <<<<"E", "M", "P", "L", "O", "Y", "E", "E", "S">>>>]>>

\* the pipe-delimited integer fields of the text t: the digits of every `| <digits> |`,
\* a delimiter being shared by the field before it and the field after it
PipeFields(t) ==
    {oracle_cost_match(t, i)[1] : i \in {k \in DOMAIN t : oracle_cost_match(t, k) # <<>>}}

\* the largest of the fields of t, -1 when there is none
MaxField(t) ==
    IF PipeFields(t) = {} THEN -1
    ELSE CHOOSE n \in {ParseNat(f) : f \in PipeFields(t)} :
            \A f \in PipeFields(t) : ParseNat(f) <= n

\* C23: the Oracle analyzer emits a WARNING HIGH_COST record if and only if the largest
\* of all the pipe-delimited integer fields of the plan text, fields that share a
\* delimiter included, is greater than 100000; it emits at most one such record, and
\* the message of the record carries that largest value.
C23_HighCostIffMaxFieldAboveThreshold ==
    (AnalyzeDone /\ op = "_analyze_oracle_plan") =>
        LET high == KindPlaces(result, "HIGH_COST")
            most == MaxField(join_lines(fetched))
        IN  /\ (high # {}) <=> (most > 100000)
            /\ Cardinality(high) <= 1
            /\ \A k \in high :
                  /\ result[k].severity = "WARNING"
                  /\ result[k].message = <<with_commas(most)>>

-----------------------------------------------------------------------------
(* Statements about the terminators the rewriter strips *)

\* the number of semicolons the text s ends in
RECURSIVE TrailingTerminators(_)
TrailingTerminators(s) ==
    IF s # <<>> /\ s[Len(s)] = ";"
    THEN 1 + TrailingTerminators(SubSeq(s, 1, Len(s) - 1))
    ELSE 0

\* the text s without its last n characters
WithoutLast(s, n) == SubSeq(s, 1, Len(s) - n)

\* run_query or safe_execute has ended for a statement that ends in a terminator,
\* under one of the four dialects
TerminatedDone ==
    /\ RunDone /\ op \in {"run_query", "safe_execute"}
    /\ db_type \in Dialects
    /\ EndsInTerminator(sql)

\* every bounded statement the call sent has the text inner inside the bounding form
SentAround(inner) ==
    \A i \in DOMAIN cursor_log :
        IsBounded(cursor_log[i]) => cursor_log[i] = BoundedForm(db_type, inner, row_limit)

\* both copies of the rewriter, alone, put the text inner inside the bounding form
AloneAround(inner) ==
    \A d \in Dialects :
        /\ rqs_wrap_with_limit(sql, row_limit, d) = BoundedForm(d, inner, row_limit)
        /\ dbc_wrap_with_limit(sql, row_limit, d) = BoundedForm(d, inner, row_limit)

\* C24 as stated: the rewriter strips one trailing terminator and nothing else: for an
\* input ending in k >= 1 semicolons the text inside the bounding subquery is the input
\* without its last semicolon, on the run_query path as well as in _wrap_with_limit
\* alone.
C24_Original_OneTerminatorStripped ==
    TerminatedDone =>
        /\ SentAround(WithoutLast(sql, 1))
        /\ AloneAround(WithoutLast(sql, 1))

\* C24 (amended): the rewriter strips every trailing terminator: for an input ending
\* in k >= 1 semicolons the text inside the bounding subquery is, in _wrap_with_limit
\* alone (and so in safe_execute), the input without its k last semicolons; on the
\* run_query path the input loses its leading white space and its k last semicolons
\* before it is classified, and in the rewriter the white space then left at the end
\* and the semicolons in front of that white space.
C24_EveryTerminatorStripped ==
    TerminatedDone =>
        LET k == TrailingTerminators(sql)
            alone == WithoutLast(sql, k)
            given == WithoutLast(lstrip(sql), k)
            spaced == rstrip(given)
        IN  /\ AloneAround(alone)
            /\ (op = "safe_execute") => SentAround(alone)
            /\ (op = "run_query") =>
                  SentAround(WithoutLast(spaced, TrailingTerminators(spaced)))

\* run_query has sent `SELECT ;;` bounded as SELECT
C24_Witness ==
    /\ TerminatedDone
    /\ op = "run_query"
    /\ sql = SelectTwoTerminators
    /\ error = "none"
    /\ \E i \in DOMAIN cursor_log :
          cursor_log[i] = BoundedForm(db_type, KW_SELECT, row_limit)

-----------------------------------------------------------------------------
(* Statements about the PostgreSQL plan retrieval *)

Txt_PgExplainText ==
    <<"E", "X", "P", "L", "A", "I", "N", " ", "(", "F", "O", "R", "M", "A", "T", " ", "T",
      "E", "X", "T", ",", " ", "C", "O", "S", "T", "S", " ", "t", "r", "u", "e", ",", " ",
      "V", "E", "R", "B", "O", "S", "E", " ", "t", "r", "u", "e", ")", " ">>
Txt_PgExplainJson ==
    <<"E", "X", "P", "L", "A", "I", "N", " ", "(", "F", "O", "R", "M", "A", "T", " ", "J",
      "S", "O", "N", ",", " ", "C", "O", "S", "T", "S", " ", "t", "r", "u", "e", ")", " ">>

\* explain_query has ended under PostgreSQL for a statement it accepts
PgExplainAccepted ==
    /\ RunDone /\ op = "explain_query"
    /\ db_type = "postgresql"
    /\ is_select_only(sql)

\* C25: for every statement that explain_query accepts on PostgreSQL, also one that
\* begins with EXPLAIN, exactly two statements are sent to the cursor by a call that
\* returns, the text-format explain and then the JSON-format explain of the statement,
\* and no other statement by a call that raises; neither of them uses ANALYZE, and the
\* statement is never sent on its own.
C25_PgExplainNeverExecutes ==
    PgExplainAccepted =>
        /\ (error = "none") =>
              cursor_log = <<Txt_PgExplainText \o sql, Txt_PgExplainJson \o sql>>
        /\ IsPrefix(cursor_log, <<Txt_PgExplainText \o sql, Txt_PgExplainJson \o sql>>)
        /\ \A i \in DOMAIN cursor_log :
              /\ ~Contains(cursor_log[i], KW_ANALYZE)
              /\ cursor_log[i] # sql

-----------------------------------------------------------------------------
(* Statements about the failures of the driver *)

\* a call of execute, explain or of a relationship function has ended
DriverDone == pc = "done" /\ op \in DialectCalls

\* the failures the Oracle explain swallows
SwallowedCleanup ==
    /\ op = "explain_query" /\ db_type = "oracle"
    /\ Len(raised) = 1
    /\ raised[1] \in CleanupCalls

\* the failure of the SQL Server explain that SET SHOWPLAN_TEXT OFF, failing in the
\* finally block, has replaced
ReplacedInFinally ==
    /\ op = "explain_query" /\ db_type = "sqlserver"
    /\ Len(raised) = 2
    /\ raised[1] \in {"statement", "fetch_plan"}
    /\ raised[2] = "showplan_off"

\* the outcomes of the relationship call of this state in which no driver call raised
CleanOutcomes ==
    {o \in (IF op = "find_relationships"
            THEN find_relationships(catalog, schema, table_list[1])
            ELSE find_join_between(catalog, schema, table_list)) :
        o.db_type = db_type /\ o.raised = <<>>}

\* no statement was issued again: execute and explain send no statement twice; a
\* relationship call, which sends its catalog statements once per pattern, match or
\* pair, has sent a beginning of what it sends when nothing raises
NothingReissued ==
    IF op \in {"find_relationships", "find_join_between"}
    THEN cursor_log = <<>> \/ \E o \in CleanOutcomes : IsPrefix(cursor_log, o.log)
    ELSE \A i, j \in DOMAIN cursor_log : (cursor_log[i] = cursor_log[j]) => (i = j)

-----------------------------------------------------------------------------
(* Statements about the statement under show-plan mode *)

\* explain_query has ended under SQL Server
SqlServerExplainDone == RunDone /\ op = "explain_query" /\ db_type = "sqlserver"

\* C27: in the SQL Server explain the statement of the caller is sent to the cursor
\* only while show-plan mode is on: after SET SHOWPLAN_TEXT ON has succeeded and
\* before SET SHOWPLAN_TEXT OFF is sent, and not at all when turning the mode on
\* fails.
C27_StatementOnlyUnderShowplan ==
    SqlServerExplainDone =>
        /\ \A k \in SentAt(sql) :
              /\ \E j \in SentAt(Txt_ShowplanOn) : j < k
              /\ ShowplanIsOn
              /\ \A j \in SentAt(Txt_ShowplanOff) : k < j
        /\ Cardinality(SentAt(sql)) <= 1
        /\ (raised # <<>> /\ raised[1] = "showplan_on") =>
              cursor_log = <<Txt_ShowplanOn>>

\* the statement was sent once, between a successful SET SHOWPLAN_TEXT ON and
\* SET SHOWPLAN_TEXT OFF
C27_Witness ==
    /\ SqlServerExplainDone
    /\ error = "none"
    /\ cursor_log = <<Txt_ShowplanOn, sql, Txt_ShowplanOff>>
    /\ SentAt(sql) = {2}

-----------------------------------------------------------------------------
(* Statements about the rows left in the plan table *)

\* the EXPLAIN PLAN statement of the Oracle explain was executed and did not fail
ExplainPlanSucceeded ==
    /\ ExplainDone("oracle")
    /\ fault \notin {"connect", "cursor"}
    /\ (raised = <<>> \/ raised[1] # "explain_plan")

\* the DELETE for the statement id of the EXPLAIN PLAN statement was sent
CleanupAttempted ==
    \E id \in StmtIds :
        /\ Contains(cursor_log[1], id)
        /\ SentAt(Txt_DeletePlan(id)) # {}

\* C28: in the Oracle explain, once the EXPLAIN PLAN SET STATEMENT_ID statement has
\* succeeded, the DELETE FROM PLAN_TABLE for the same statement id is attempted
\* before the call returns or raises, on every path, also when reading the plan
\* back through DBMS_XPLAN fails.
C28_CleanupAttemptedOnEveryPath ==
    ExplainPlanSucceeded => CleanupAttempted

-----------------------------------------------------------------------------
(* Statements about the target of a naming hint *)

\* C29: no naming hint that the Oracle discovery returns points from the asked table
\* to the asked table itself; in particular none equates a column of the asked table
\* with that same column of it.
C29_NoHintToAskedTable ==
    (RelDone /\ db_type = "oracle") =>
        \A h \in Elems(result.naming_hints) :
            /\ h.to_table # table_list[1]
            /\ ~(h.to_schema = schema /\ h.to_table = h.from_table
                 /\ h.to_column = h.from_column)

-----------------------------------------------------------------------------
(* Statements about the dialects of the relationship calls *)

\* the fetches of the relationship calls
RelationshipFetches ==
    {"fetch_fk_from", "fetch_fk_to", "fetch_fk", "fetch_columns", "fetch_tables",
     "fetch_pk_columns"}

\* a relationship call has ended under one of the four dialect tags
SupportedRelationshipDone ==
    /\ pc = "done"
    /\ op \in {"find_relationships", "find_join_between"}
    /\ db_type \in Dialects

\* C30: each of the tags oracle, mysql, postgresql and sqlserver is handled by
\* find_relationships and find_join_between: the call does not fail with an error
\* that is not a driver error, and no rows are fetched from a cursor on which the call
\* has not executed a catalog query first.
C30_SupportedTagsHandled ==
    SupportedRelationshipDone =>
        /\ error \in {"none", "DriverError"}
        /\ (\E k \in DOMAIN raised : raised[k] \in RelationshipFetches) =>
              cursor_log # <<>>
        /\ (error = "none" /\ op = "find_relationships") => cursor_log # <<>>
        /\ (error = "none" /\ op = "find_join_between" /\ Len(table_list) >= 2) =>
              cursor_log # <<>>

=============================================================================
